---- MODULE Spec2Model ----
(***************************************************************************)
(* A model of memvra: the knowledge store (files, chunks, memories, the   *)
(* two vector indices, the project row), the commands that write it        *)
(* (init, update, remember, forget), and the watcher's debounced event     *)
(* loop.  Further sections model the context builder, retrieval, the       *)
(* streaming completion adapters and the schema migrations.                *)
(***************************************************************************)
EXTENDS Integers, Sequences, FiniteSets, TLC

VARIABLES
    disk,        \* file path -> line count of its content (0: the file does not exist)
    dirs,        \* directories that exist under the project root
    dbInit,      \* .memvra/memvra.db exists
    files,       \* rows of table files: [id, path, hash]
    chunks,      \* rows of table chunks: [id, file_id, start, end, hash]
    vecChunks,   \* ids of the records of vec_chunks
    memories,    \* rows of table memories: [id, kind]
    vecMemories, \* ids of the records of vec_memories
    project,     \* the project row: [exists, file_count, chunk_count]
    watching,    \* a watch command is running
    watched,     \* directories the watcher has added to its watch set
    events,      \* watcher.Events: events delivered by the OS, not yet received
    pending,     \* the watcher's pending map: path -> op
    timer,       \* the debounce timer is armed
    wpc,         \* the watcher loop: "select" or "processing" (inside processChanges)
    batch,       \* the batch processChanges is iterating: path -> op, paths left to handle
    tally,       \* processChanges: [changed: changedFileIDs, n: added+modified+deleted]
    lastCmd,     \* whether the last command or batch that completed ran the auto-export:
                 \* "none" (nothing completed yet), "exported", "skipped"
    \* Builder.Build
    bpc,         \* the stage of the build: "idle", "files", "decisions", "memories",
                 \* "chunks", "done"
    bopts,       \* BuildOptions: [MaxTokens]
    binput,      \* what the build has still to evaluate: [files, decisions, memories, chunks]
    remaining,   \* the remaining token budget
    sections,    \* contextSections: a record [kind, tokens, avail] per appended block
    \* Orchestrator.Retrieve
    rpc,         \* "idle", "done" (Retrieve returned) or "panic"
    rin,         \* the orchestrator's wiring: [embedder, vec]
    rout,        \* the RetrievalResult: [chunks, memories] as sets of ids, and err
    \* LLMAdapter.Complete
    spc,         \* the producer: "idle", "request", "loop", "exit", "closed"
    scall,       \* the call: [adapter, stream]
    ch,          \* the chunks buffered in the channel
    closes,      \* how many times the channel has been closed
    sent,        \* every chunk the producer has sent, in order
    reading,     \* the consumer is still ranging over the channel
    \* db.Open
    mpc,         \* per process: [at, i]: the position in applyMigrations
    rows,        \* the versions recorded in schema_migrations
    applied,     \* migration index -> how many times its statement has been executed
    \* ChunkFile
    kpc,         \* the call: "idle", "ready" or "done"
    kin,         \* its arguments: [lines, chunkType, maxLines]
    kout,        \* the chunks returned, as line ranges <<start, end>>
    \* Store.InsertMemory and Orchestrator.Remember called on their own
    oret,        \* the last call and what it returned: [op, kind, id, inserted, out]
    \* autoExport
    epc,         \* the run: "idle", "ready" or "done"
    ecfg,        \* gcfg.AutoExport: [enabled, formats]
    ewritten,    \* the export files the run has written
    \* embedding writes
    vret,        \* the last command that wrote embeddings: [op, dim, failed, out]
    \* Store.UpsertProject
    ptable,      \* the rows of the project table: [id, name, file_count, chunk_count]
    pfirst,      \* the id of the row the first call left, 0 before it
    pcalls,      \* the calls made
    \* memvra hook install / uninstall
    hfile,       \* .git/hooks/post-commit: [exists, lines], the content split at "\n"
    horig,       \* the file before the first command
    hlast,       \* the last command run: "none", "install" or "uninstall"
    \* the watcher's debounce, with time
    dpend,       \* the pending map: path -> op
    dwait,       \* path -> ticks since its oldest event not yet handed to a batch
    dsince,      \* ticks since the last event put in the pending map
    dtimer,      \* the timer: -1 stopped, 0 fired (timer.C is ready), else ticks left
    dbatch,      \* the last batch handed to processChanges: path -> [op, waited, quiet]
    dstopped,    \* the shutdown signal was received
    \* update and a watcher batch on the same store
    cpc,         \* per process: "idle", "index", "countChunks" or "save"
    cloc,        \* per process: [todo, force, changed, fileCount, chunkCount]
    \* Ranker.RankChunks and Ranker.RankMemories
    npc,         \* the call: "idle", "ready" or "done"
    nin,         \* its arguments: [kind, items]; items are [id, sim, importance, type]
    nout         \* the ranked results: [id, score], score in hundredths

ixvars == <<disk, dirs, dbInit, files, chunks, vecChunks, memories, vecMemories,
            project, watching, watched, events, pending, timer, wpc,
            batch, tally, lastCmd>>

bvars == <<bpc, bopts, binput, remaining, sections>>
rvars == <<rpc, rin, rout>>
svars == <<spc, scall, ch, closes, sent, reading>>
mvars == <<mpc, rows, applied>>
kvars == <<kpc, kin, kout>>

\* the variables of the operations modelled one at a time
ovars == <<oret>>
evars == <<epc, ecfg, ewritten>>
vvars == <<vret>>
pvars == <<ptable, pfirst, pcalls>>
hvars == <<hfile, horig, hlast>>
dvars == <<dpend, dwait, dsince, dtimer, dbatch, dstopped>>
\* the groups of the later sections
cvars == <<cpc, cloc>>
nvars == <<npc, nin, nout>>
zvars == <<dvars, cvars, nvars>>
exceptD == <<cvars, nvars>>
exceptC == <<dvars, nvars>>
exceptN == <<dvars, cvars>>
oldx == <<kvars, ovars, evars, vvars, pvars, hvars>>
xvars == <<kvars, ovars, evars, vvars, pvars, hvars, zvars>>
\* each group's complement among them
exceptK == <<ovars, evars, vvars, pvars, hvars, zvars>>
exceptO == <<kvars, evars, vvars, pvars, hvars, zvars>>
exceptE == <<kvars, ovars, vvars, pvars, hvars, zvars>>
exceptV == <<kvars, ovars, evars, pvars, hvars, zvars>>
exceptP == <<kvars, ovars, evars, vvars, hvars, zvars>>
exceptH == <<kvars, ovars, evars, vvars, pvars, zvars>>
\* the variables those operations leave alone
basevars == <<ixvars, bvars, rvars, svars, mvars>>

\* the variables the index, the commands and the watcher leave alone
auxvars == <<bvars, rvars, svars, mvars, xvars>>

vars == <<ixvars, bvars, rvars, svars, mvars, xvars>>

-----------------------------------------------------------------------------
(* Bounds of the model *)

MaxChunkId == 4
MaxFileId == 2
MaxMemId == 1
MaxEvents == 1
\* context.chunk_max_lines of the configuration the model runs with
ChunkMaxLines == 20

\* line counts of the file contents the model writes; the content hash
\* identifies the content, and each line count stands for one content
Contents == {5, 25}

-----------------------------------------------------------------------------
(* Paths, ignore rules, language table *)

FileA == <<"a.go">>
FileB == <<"d", "b.go">>
DirD == <<"d">>
FilePaths == {FileA, FileB}

Base(p) == p[Len(p)]
DirParts(p) == {p[i] : i \in 1..(Len(p) - 1)}
Parts(p) == {p[i] : i \in 1..Len(p)}

\* filepath.Ext over the names of the model
Ext(name) == IF name \in {"a.go", "b.go"} THEN ".go" ELSE ""

HardIgnore(name) ==
    name \in {"node_modules", "vendor", ".git", "dist", "build", ".memvra",
              "__pycache__", ".venv", "venv", "env", ".bundle", "tmp", "log",
              "coverage", ".nyc_output", "target"}

SkipFile(name) ==
    \/ Ext(name) \in {".png", ".jpg", ".jpeg", ".gif", ".svg", ".ico", ".webp",
                      ".pdf", ".doc", ".docx", ".zip", ".tar", ".gz", ".tgz",
                      ".rar", ".exe", ".bin", ".dll", ".so", ".dylib", ".lock",
                      ".sum", ".min.js", ".map"}
    \/ name \in {"Gemfile.lock", "package-lock.json", "yarn.lock", "go.sum",
                 "Cargo.lock", "composer.lock", "poetry.lock", "Pipfile.lock"}

LanguageForFile(p) ==
    CASE Ext(Base(p)) = ".go" -> "go"
      [] Ext(Base(p)) = ".rb" -> "ruby"
      [] Ext(Base(p)) = ".py" -> "python"
      [] Ext(Base(p)) = "" /\ Base(p) \in {"Dockerfile", "Makefile", "Gemfile"} -> Base(p)
      [] OTHER -> ""

\* the project has no .gitignore patterns: the matcher accepts everything
IgnoreMatch(p) == FALSE

shouldIgnoreEvent(p) ==
    \/ \E n \in Parts(p) : HardIgnore(n)
    \/ IgnoreMatch(p)

-----------------------------------------------------------------------------
(* Chunker *)

DefaultOverlap == 10
DefaultMaxLines == 150

\* a window start that moves past the end of the previous window
AdvanceFull(maxLines, overlap) == maxLines

AdvanceSkipping(maxLines, overlap) == maxLines + 1

\* the lines by which the window start moves on: maxLines minus the overlap
Advance(maxLines, overlap) ==
    IF maxLines - overlap <= 0 THEN maxLines ELSE maxLines - overlap

\* chunkByLines: the line ranges <<start, end>> (1-based, inclusive) of a file of
\* total lines; start is the 0-based loop variable of the code
RECURSIVE chunkLoop(_, _, _, _, _)
chunkLoop(total, maxLines, overlap, start, acc) ==
    IF start >= total THEN acc
    ELSE LET end == IF start + maxLines > total THEN total ELSE start + maxLines
             acc1 == Append(acc, <<start + 1, end>>)
             start1 == start + Advance(maxLines, overlap)
         IN IF total - start1 < overlap /\ start1 < total
            THEN [acc1 EXCEPT ![Len(acc1)] = <<acc1[Len(acc1)][1], total>>]
            ELSE chunkLoop(total, maxLines, overlap, start1, acc1)

chunkByLines(total, maxLines, overlap) ==
    IF total <= maxLines THEN << <<1, total>> >>
    ELSE chunkLoop(total, maxLines, overlap, 0, << >>)

\* chunkMarkdown's flush closure: the lines collected since startLine become a chunk
flush(acc, current, startLine, endLine) ==
    IF current = 0 THEN acc ELSE Append(acc, <<startLine, endLine>>)

\* chunkMarkdown: lines[i] tells whether line i starts with "## " or "### ";
\* current is the number of lines collected, i the 1-based line number
RECURSIVE markdownLoop(_, _, _, _, _, _)
markdownLoop(lines, maxLines, i, current, startLine, acc) ==
    IF i > Len(lines) THEN flush(acc, current, startLine, Len(lines))
    ELSE IF lines[i] /\ current > 0
         THEN IF 1 >= maxLines
              THEN markdownLoop(lines, maxLines, i + 1, 0, i + 1,
                                flush(flush(acc, current, startLine, i - 1), 1, i, i))
              ELSE markdownLoop(lines, maxLines, i + 1, 1, i,
                                flush(acc, current, startLine, i - 1))
         ELSE IF current + 1 >= maxLines
              THEN markdownLoop(lines, maxLines, i + 1, 0, i + 1,
                                flush(acc, current + 1, startLine, i))
              ELSE markdownLoop(lines, maxLines, i + 1, current + 1, startLine, acc)

chunkMarkdown(lines, maxLines) == markdownLoop(lines, maxLines, 1, 0, 1, << >>)

\* ChunkFile: lines is the content split at "\n", one heading flag per line
ChunkFile(lines, chunkType, maxLines) ==
    IF Len(lines) = 0 THEN << >>
    ELSE IF chunkType = "docs"
         THEN chunkMarkdown(lines, IF maxLines <= 0 THEN DefaultMaxLines ELSE maxLines)
         ELSE chunkByLines(Len(lines), IF maxLines <= 0 THEN DefaultMaxLines ELSE maxLines,
                           DefaultOverlap)

\* the lines of a source file of n lines: none is a markdown heading
CodeLines(n) == [i \in 1..n |-> FALSE]

\* the calls of ChunkFile that are explored
MaxCodeLines == 165
MaxDocLines == 6
MaxLinesChoices == {0, 1, 2, 3, 10, 11, 12, 25, 150}

\* windows of fewer than MinWindow lines are explored on files of at most
\* MaxShortLines lines
MaxShortLines == 40
MinWindow == 25

ChunkCalls ==
    {c \in [lines : {CodeLines(n) : n \in 1..MaxCodeLines}, chunkType : {"code", "test"},
            maxLines : MaxLinesChoices] :
        Len(c.lines) <= MaxShortLines \/ c.maxLines = 0 \/ c.maxLines >= MinWindow}
    \cup [lines : UNION {[1..n -> BOOLEAN] : n \in 1..MaxDocLines}, chunkType : {"docs"},
          maxLines : MaxLinesChoices]

NoChunkCall == [lines |-> << >>, chunkType |-> "", maxLines |-> 0]

ChunkIdle == kpc = "idle" /\ kin = NoChunkCall /\ kout = << >>

CallChunkFile ==
    /\ kpc = "ready"
    /\ kout' = ChunkFile(kin.lines, kin.chunkType, kin.maxLines)
    /\ kpc' = "done"
    /\ UNCHANGED <<kin, basevars, exceptK>>

-----------------------------------------------------------------------------
(* Scanner *)

\* ScanFile: "skip" (nil, nil), "error" (the read failed), or the scanned file
ScanFile(p) ==
    IF \/ \E n \in DirParts(p) : HardIgnore(n)
       \/ SkipFile(Base(p))
       \/ IgnoreMatch(p)
       \/ LanguageForFile(p) = ""
    THEN [kind |-> "skip"]
    ELSE IF p \notin FilePaths \/ disk[p] = 0
         THEN [kind |-> "error"]
         ELSE [kind |-> "file", path |-> p, hash |-> disk[p],
               ranges |-> ChunkFile(CodeLines(disk[p]), "code", ChunkMaxLines)]

\* Scan: the paths of the files a full walk of the tree indexes
ScanPaths ==
    {p \in FilePaths :
        /\ disk[p] # 0
        /\ ~\E n \in DirParts(p) : HardIgnore(n)
        /\ ~SkipFile(Base(p))
        /\ ~IgnoreMatch(p)
        /\ LanguageForFile(p) # ""}

-----------------------------------------------------------------------------
(* Store *)

NoProject == [exists |-> FALSE, file_count |-> 0, chunk_count |-> 0]

FileIds(fs) == {f.id : f \in fs}
ChunkIds(cs) == {c.id : c \in cs}
MemIds(ms) == {m.id : m \in ms}

\* lower(hex(randomblob(16))): an id no row or vector record holds
RECURSIVE FreshIds(_, _)
FreshIds(free, n) ==
    IF n = 0 \/ free = {} THEN << >>
    ELSE LET i == CHOOSE x \in free : \A y \in free : x <= y
         IN <<i>> \o FreshIds(free \ {i}, n - 1)

FreeChunkIds(cs, vs) == (1..MaxChunkId) \ (ChunkIds(cs) \cup vs)
FreeFileIds(fs, held) == (1..MaxFileId) \ (FileIds(fs) \cup held)
FreeMemIds(ms, vs) == (1..MaxMemId) \ (MemIds(ms) \cup vs)

GetFileByPath(fs, p) == {f \in fs : f.path = p}

KeepChunks(cs, fid) == cs

DeleteChunksByFileID(cs, fid) == {c \in cs : c.file_id # fid}

ListChunksByFileID(cs, fid) == {c \in cs : c.file_id = fid}

\* DeleteFile: the file row and, by ON DELETE CASCADE, its chunks
DeleteFileRows(fs, fid) == {f \in fs : f.id # fid}

ValidMemoryType(k) == k \in {"decision", "convention", "constraint", "note", "todo"}

MemoryKinds == {"decision", "note"}

\* InsertChunk for each range of the scanned file sf, under the ids given
InsertChunks(cs, sf, fid, ids) ==
    cs \cup {[id |-> ids[i], file_id |-> fid, start |-> sf.ranges[i][1],
              end |-> sf.ranges[i][2], hash |-> sf.hash] : i \in 1..Len(ids)}

\* UpsertFile: the row of sf.path keeps its id on conflict, a new row gets a fresh one
UpsertFile(fs, held, sf) ==
    LET existing == GetFileByPath(fs, sf.path)
        fresh == FreshIds(FreeFileIds(fs, held), 1)
    IN IF existing = {} THEN (IF fresh = << >> THEN 0 ELSE fresh[1])
       ELSE (CHOOSE f \in existing : TRUE).id

\* UpsertFile, DeleteChunksByFileID and InsertChunk for each chunk of a scanned file
\* (the shared body of upsertScannedFile's two re-index branches and of init's loop)
ReindexFile(fs, cs, vs, held, sf) ==
    CHOOSE out \in
        {[files |-> {f \in fs : f.path # sf.path}
                      \cup {[id |-> fid, path |-> sf.path, hash |-> sf.hash]},
          chunks |-> InsertChunks(DeleteChunksByFileID(cs, fid), sf, fid, ids),
          id |-> fid,
          ok |-> fid # 0 /\ Len(ids) = Len(sf.ranges)] :
            <<fid, ids>> \in
                {<<x, FreshIds(FreeChunkIds(DeleteChunksByFileID(cs, x), vs),
                               Len(sf.ranges))>> : x \in {UpsertFile(fs, held, sf)}}} : TRUE

\* upsertScannedFile: [files, chunks, id, status, ok]; ok is FALSE when the model
\* has no id left to give
upsertScannedFile(fs, cs, vs, held, sf, force) ==
    LET existing == GetFileByPath(fs, sf.path)
        isNew == existing = {}
    IN IF ~isNew /\ ~force /\ (CHOOSE f \in existing : TRUE).hash = sf.hash
       THEN [files |-> fs, chunks |-> cs, id |-> (CHOOSE f \in existing : TRUE).id,
             ok |-> TRUE, status |-> "unchanged"]
       ELSE CHOOSE out \in
               {[files |-> r.files, chunks |-> r.chunks, id |-> r.id, ok |-> r.ok,
                 status |-> IF isNew THEN "added" ELSE "modified"] :
                    r \in {ReindexFile(fs, cs, vs, held, sf)}} : TRUE

\* pruneDeletedFile: the vectors of the file's chunks, then the file row (cascade)
pruneDeletedFile(fs, cs, vs, fid) ==
    [files |-> DeleteFileRows(fs, fid),
     chunks |-> DeleteChunksByFileID(cs, fid),
     vecs |-> vs \ ChunkIds(ListChunksByFileID(cs, fid)),
     pruned |-> fid]

\* the embedding step as it would be did it store nothing
embedNothing(cs, vs, okIds) == vs

\* embedFileChunks: the embedder answers for the files in okIds and fails for the others
embedFileChunks(cs, vs, okIds) ==
    vs \cup {c.id : c \in {x \in cs : x.file_id \in okIds}}

\* embedAllChunks of init: one batch of at most 32 chunks, embedded or not
embedAllChunks(cs, vs, ok) ==
    IF ok THEN vs \cup ChunkIds(cs) ELSE vs

refreshProjectCounts(fs, cs, proj) ==
    IF proj.exists
    THEN [exists |-> TRUE, file_count |-> Cardinality(fs), chunk_count |-> Cardinality(cs)]
    ELSE proj

\* the paths of a scan in the order filepath.WalkDir visits them
ScanOrder == IF FileB \in ScanPaths
             THEN (IF FileA \in ScanPaths THEN <<FileA, FileB>> ELSE <<FileB>>)
             ELSE (IF FileA \in ScanPaths THEN <<FileA>> ELSE << >>)

\* the loop of update over result.Files: st is [files, chunks, changed, ok]
RECURSIVE upsertAll(_, _, _, _)
upsertAll(st, vs, paths, force) ==
    IF paths = << >> THEN st
    ELSE CHOOSE out \in
            {upsertAll([files |-> r.files, chunks |-> r.chunks,
                        changed |-> IF r.status = "unchanged" THEN s.changed
                                    ELSE s.changed \cup {r.id},
                        ok |-> s.ok /\ r.ok],
                       vs, Tail(paths), force) :
                <<s, r>> \in {<<x, upsertScannedFile(x.files, x.chunks, vs, {},
                                                     ScanFile(Head(paths)), force)>> :
                              x \in {st}}} : TRUE

\* the loop of init over result.Files
RECURSIVE reindexAll(_, _, _)
reindexAll(st, vs, paths) ==
    IF paths = << >> THEN st
    ELSE CHOOSE out \in
            {reindexAll([files |-> r.files, chunks |-> r.chunks, ok |-> s.ok /\ r.ok],
                        vs, Tail(paths)) :
                <<s, r>> \in {<<x, ReindexFile(x.files, x.chunks, vs, {},
                                               ScanFile(Head(paths)))>> : x \in {st}}} : TRUE

\* update's prune loop: every file row whose path the scan did not return
RECURSIVE pruneAll(_, _)
pruneAll(st, ids) ==
    IF ids = {} THEN st
    ELSE CHOOSE out \in
            {pruneAll(r, ids \ {r.pruned}) :
                r \in {pruneDeletedFile(s.files, s.chunks, s.vecs, CHOOSE x \in ids : TRUE) :
                       s \in {st}}} : TRUE

\* the store holds what a full rescan of the tree would leave: a file row per
\* scanned path with the hash of its content, and the chunker's ranges as its chunks
StoreMatchesDisk ==
    /\ {f.path : f \in files} = ScanPaths
    /\ \A f \in files :
          /\ f.path \in FilePaths /\ f.hash = disk[f.path]
          /\ {<<c.start, c.end, c.hash>> : c \in ListChunksByFileID(chunks, f.id)}
               = {<<ChunkFile(CodeLines(disk[f.path]), "code", ChunkMaxLines)[i][1],
                    ChunkFile(CodeLines(disk[f.path]), "code", ChunkMaxLines)[i][2], disk[f.path]>> :
                    i \in 1..Len(ChunkFile(CodeLines(disk[f.path]), "code", ChunkMaxLines))}
    /\ \A c \in chunks : c.file_id \in FileIds(files)

EmbedderStates == {"nil", "fail", "ok"}

-----------------------------------------------------------------------------
(* Commands *)

StoreVars == <<files, chunks, vecChunks, memories, vecMemories, project>>
TreeVars == <<disk, dirs>>
WatchVars == <<watching, watched, events, pending, timer, wpc, batch, tally>>

\* memvra init
CmdInit(emb, note) ==
    \E st \in {reindexAll([files |-> files, chunks |-> chunks, ok |-> TRUE],
                          vecChunks, ScanOrder)},
       mid \in {FreshIds(FreeMemIds(memories, vecMemories), 1)} :
       /\ st.ok
       /\ note # "none" => mid # << >>
       /\ dbInit' = TRUE
       /\ files' = st.files
       /\ chunks' = st.chunks
       /\ project' = [exists |-> TRUE, file_count |-> Cardinality(st.files),
                      chunk_count |-> Cardinality(st.chunks)]
       /\ vecChunks' = IF emb = "nil" THEN vecChunks
                       ELSE embedAllChunks(st.chunks, vecChunks, emb = "ok")
       /\ memories' = IF note = "none" THEN memories
                      ELSE memories \cup {[id |-> mid[1], kind |-> note]}
       /\ vecMemories' = IF note # "none" /\ emb = "ok"
                         THEN vecMemories \cup {mid[1]} ELSE vecMemories
       /\ lastCmd' = "exported"
       /\ UNCHANGED <<auxvars, TreeVars, WatchVars>>

\* update's loop over the scanned files
UpdateScan(force) ==
    upsertAll([files |-> files, chunks |-> chunks, changed |-> {}, ok |-> TRUE],
              vecChunks, ScanOrder, force)

\* update's prune of the file rows whose path the scan did not return
UpdatePrune(st) ==
    pruneAll([files |-> st.files, chunks |-> st.chunks, vecs |-> vecChunks],
             {f.id : f \in {x \in st.files : x.path \notin ScanPaths}})

\* what update leaves, given the store st after its loop and pr after its prune,
\* with the embedder in state emb; okIds are the changed files whose chunks the
\* embedder embeds
UpdateOutcome(st, pr, emb, okIds) ==
    /\ okIds \subseteq st.changed
    /\ dbInit
    /\ st.ok
    /\ emb = "nil" => okIds = {}
    /\ emb = "ok" => okIds = st.changed
    /\ emb = "fail" => okIds # st.changed
    /\ files' = pr.files
    /\ chunks' = pr.chunks
    /\ project' = refreshProjectCounts(pr.files, pr.chunks, project)
    /\ vecChunks' = IF st.changed = {} \/ emb = "nil" THEN pr.vecs
                    ELSE embedFileChunks(pr.chunks, pr.vecs, okIds)
    /\ lastCmd' = IF st.changed = {} \/ emb # "nil" THEN "exported" ELSE "skipped"
    /\ UNCHANGED <<auxvars, dbInit, memories, vecMemories, TreeVars, WatchVars>>

\* memvra update [--force]
CmdUpdate(force) ==
    \E st \in {UpdateScan(force)} :
    \E pr \in {UpdatePrune(st)} :
    \E emb \in EmbedderStates, okIds \in SUBSET st.changed :
        UpdateOutcome(st, pr, emb, okIds)

\* memvra update [--force] with an embedder that answers every call
UpdateEmbedding(force) ==
    \E st \in {UpdateScan(force)} :
    \E pr \in {UpdatePrune(st)} :
        UpdateOutcome(st, pr, "ok", st.changed)

\* memvra remember
CmdRemember(kind, emb) ==
    LET mid == FreshIds(FreeMemIds(memories, vecMemories), 1)
    IN /\ dbInit
       /\ ValidMemoryType(kind)
       /\ mid # << >>
       /\ memories' = memories \cup {[id |-> mid[1], kind |-> kind]}
       /\ vecMemories' = IF emb = "ok" THEN vecMemories \cup {mid[1]} ELSE vecMemories
       /\ lastCmd' = "skipped"
       /\ UNCHANGED <<auxvars, dbInit, files, chunks, vecChunks, project, TreeVars, WatchVars>>

\* memvra forget --id
CmdForgetId(id) ==
    /\ dbInit
    /\ id \in MemIds(memories)
    /\ memories' = {m \in memories : m.id # id}
    /\ lastCmd' = "skipped"
    /\ UNCHANGED <<auxvars, dbInit, files, chunks, vecChunks, vecMemories, project, TreeVars, WatchVars>>

\* memvra forget --type
CmdForgetType(kind) ==
    /\ dbInit
    /\ ValidMemoryType(kind)
    /\ memories' = {m \in memories : m.kind # kind}
    /\ lastCmd' = "skipped"
    /\ UNCHANGED <<auxvars, dbInit, files, chunks, vecChunks, vecMemories, project, TreeVars, WatchVars>>

\* memvra forget --all
CmdForgetAll ==
    /\ dbInit
    /\ memories' = {}
    /\ lastCmd' = "skipped"
    /\ UNCHANGED <<auxvars, dbInit, files, chunks, vecChunks, vecMemories, project, TreeVars, WatchVars>>

\* Orchestrator.ForgetByType
ForgetByType(kind) ==
    /\ dbInit
    /\ ValidMemoryType(kind)
    /\ \E m \in memories : m.kind = kind
    /\ memories' = {m \in memories : m.kind # kind}
    /\ UNCHANGED <<auxvars, dbInit, files, chunks, vecChunks, vecMemories, project, lastCmd,
                   TreeVars, WatchVars>>

\* Orchestrator.Forget
Forget(id) ==
    /\ dbInit
    /\ id \in MemIds(memories)
    /\ memories' = {m \in memories : m.id # id}
    /\ vecMemories' = vecMemories \ {id}
    /\ UNCHANGED <<auxvars, dbInit, files, chunks, vecChunks, project, lastCmd, TreeVars, WatchVars>>

-----------------------------------------------------------------------------
(* The file tree and the events the OS delivers to the watcher *)

FsOps == {"Create", "Write", "Remove", "Rename"}

ParentExists(p) == Len(p) = 1 \/ SubSeq(p, 1, Len(p) - 1) \in dirs
ParentWatched(p) == Len(p) = 1 \/ SubSeq(p, 1, Len(p) - 1) \in watched

\* an event for path p reaches watcher.Events when a watcher runs and watches
\* the directory that holds p
Deliver(p, op) ==
    IF watching /\ ParentWatched(p)
    THEN /\ Len(events) < MaxEvents
         /\ events' = Append(events, [path |-> p, op |-> op])
    ELSE events' = events

\* a file is created or its content replaced
WriteFile(p, c) ==
    /\ ParentExists(p)
    /\ disk[p] # c
    /\ disk' = [disk EXCEPT ![p] = c]
    /\ Deliver(p, IF disk[p] = 0 THEN "Create" ELSE "Write")
    /\ UNCHANGED <<auxvars, dirs, dbInit, StoreVars, lastCmd, watching, watched,
                   pending, timer, wpc, batch, tally>>

\* a file is deleted (Remove) or renamed away (Rename)
RemoveFile(p, op) ==
    /\ disk[p] # 0
    /\ disk' = [disk EXCEPT ![p] = 0]
    /\ Deliver(p, op)
    /\ UNCHANGED <<auxvars, dirs, dbInit, StoreVars, lastCmd, watching, watched,
                   pending, timer, wpc, batch, tally>>

\* directory d is moved out of the project with the files in it: the OS reports
\* one Rename event, for the directory
MoveDirOut ==
    /\ DirD \in dirs
    /\ dirs' = dirs \ {DirD}
    /\ disk' = [p \in FilePaths |-> IF DirD[1] \in DirParts(p) THEN 0 ELSE disk[p]]
    /\ watched' = watched \ {DirD}
    /\ Deliver(DirD, "Rename")
    /\ UNCHANGED <<auxvars, dbInit, StoreVars, lastCmd, watching,
                   pending, timer, wpc, batch, tally>>

\* a directory d holding b.go with content c (0: an empty directory) is moved
\* into the project: the OS reports one Create event, for the directory
MoveDirIn(c) ==
    /\ DirD \notin dirs
    /\ dirs' = dirs \cup {DirD}
    /\ disk' = [disk EXCEPT ![FileB] = c]
    /\ Deliver(DirD, "Create")
    /\ UNCHANGED <<auxvars, dbInit, StoreVars, lastCmd, watching, watched,
                   pending, timer, wpc, batch, tally>>

-----------------------------------------------------------------------------
(* The watcher: newWatchCmd's event loop and processChanges *)

EmptyMap == << >>
NoTally == [changed |-> {}, n |-> 0]

\* the loop as it would be were processChanges started in a goroutine of its own
LoopAsync == TRUE

\* the event loop is at its select statement: processChanges is called in the loop,
\* so no case of the select runs while a batch is processed
LoopAtSelect == wpc = "select"

MapPut(m, k, v) == [x \in DOMAIN m \cup {k} |-> IF x = k THEN v ELSE m[x]]
MapDrop(m, k) == [x \in DOMAIN m \ {k} |-> m[x]]

\* case <-sigCh
StopWatch ==
    /\ watching
    /\ LoopAtSelect
    /\ watching' = FALSE
    /\ watched' = {}
    /\ events' = << >>
    /\ pending' = EmptyMap
    /\ timer' = FALSE
    /\ UNCHANGED <<auxvars, TreeVars, dbInit, StoreVars, lastCmd, wpc, batch, tally>>

\* case event := <-watcher.Events
WatchEvent ==
    /\ watching
    /\ LoopAtSelect
    /\ events # << >>
    /\ LET e == Head(events)
           isDir == e.path \in dirs
       IN /\ events' = Tail(events)
          /\ IF shouldIgnoreEvent(e.path)
             THEN UNCHANGED <<watched, pending, timer>>
             ELSE IF e.op = "Create" /\ isDir
             THEN /\ watched' = IF HardIgnore(Base(e.path)) THEN watched
                                ELSE watched \cup {e.path}
                  /\ UNCHANGED <<pending, timer>>
             ELSE IF SkipFile(Base(e.path)) \/ LanguageForFile(e.path) = ""
             THEN UNCHANGED <<watched, pending, timer>>
             ELSE /\ pending' = MapPut(pending, e.path, e.op)
                  /\ timer' = TRUE
                  /\ UNCHANGED watched
    /\ UNCHANGED <<auxvars, TreeVars, dbInit, StoreVars, lastCmd, watching, wpc, batch, tally>>

\* case <-timer.C: swap pending for a fresh map and enter processChanges
TimerFire ==
    /\ watching
    /\ LoopAtSelect
    /\ timer
    /\ timer' = FALSE
    /\ IF DOMAIN pending = {}
       THEN UNCHANGED <<pending, batch, wpc, tally>>
       ELSE /\ batch' = pending
            /\ pending' = EmptyMap
            /\ wpc' = "processing"
            /\ tally' = NoTally
    /\ UNCHANGED <<auxvars, TreeVars, dbInit, StoreVars, lastCmd, watching, watched, events>>

\* a path of the batch is pruned when its op has Remove or Rename and the path
\* is gone from disk
PruneBranch(op, exists) == op \in {"Remove", "Rename"} /\ ~exists

\* one iteration of processChanges' loop over the batch
ProcessPath(p) ==
    /\ wpc = "processing"
    /\ p \in DOMAIN batch
    /\ LET op == batch[p]
           exists == p \in FilePaths /\ disk[p] # 0
           row == GetFileByPath(files, p)
           sf == ScanFile(p)
       IN IF PruneBranch(op, exists)
          THEN IF row # {}
               THEN \E r \in {pruneDeletedFile(files, chunks, vecChunks,
                                               (CHOOSE f \in row : TRUE).id)} :
                       /\ files' = r.files
                       /\ chunks' = r.chunks
                       /\ vecChunks' = r.vecs
                       /\ tally' = [tally EXCEPT !.n = 1]
               ELSE UNCHANGED <<files, chunks, vecChunks, tally>>
          ELSE IF sf.kind # "file"
               THEN UNCHANGED <<files, chunks, vecChunks, tally>>
               ELSE \E r \in {upsertScannedFile(files, chunks, vecChunks,
                                                tally.changed, sf, FALSE)} :
                       /\ r.ok
                       /\ files' = r.files
                       /\ chunks' = r.chunks
                       /\ tally' = IF r.status = "unchanged" THEN tally
                                   ELSE [changed |-> tally.changed \cup {r.id}, n |-> 1]
                       /\ UNCHANGED vecChunks
    /\ batch' = MapDrop(batch, p)
    /\ UNCHANGED <<auxvars, TreeVars, dbInit, memories, vecMemories, project, lastCmd,
                   watching, watched, events, pending, timer, wpc>>

\* the end of processChanges: refresh the counts and embed the changed files
FinishBatch ==
    \E emb \in EmbedderStates, okIds \in SUBSET tally.changed :
    /\ wpc = "processing"
    /\ DOMAIN batch = {}
    /\ emb = "nil" \/ tally.n = 0 => okIds = {}
    /\ emb = "ok" => okIds = tally.changed
    /\ emb = "fail" => okIds # tally.changed
    /\ project' = IF tally.n = 0 THEN project
                  ELSE refreshProjectCounts(files, chunks, project)
    /\ vecChunks' = IF tally.n = 0 \/ emb = "nil" THEN vecChunks
                    ELSE embedFileChunks(chunks, vecChunks, okIds)
    /\ wpc' = "select"
    /\ tally' = NoTally
    /\ lastCmd' = "skipped"
    /\ UNCHANGED <<auxvars, TreeVars, dbInit, files, chunks, memories, vecMemories, watching,
                   watched, events, pending, timer, batch>>

-----------------------------------------------------------------------------
(* Builder.Build: the token budget of a context build *)

\* token counts of the model's texts
MaxTokensChoices == {150, 400}
ContentTokens == {20, 300}
\* what FormatChunk adds around the content: the "### path (lines a-b)" header and
\* the code fence, in tokens; the header grows with the path
FormatOverheads == {12, 60}
MaxPinned == 1
MaxRetrievedMemories == 1
MaxRetrievedChunks == 2

\* the budget below which a chunk that does not fit is dropped, not truncated
TruncateFloor == 100
\* the tokens the truncation leaves for the formatting of the chunk
TruncateReserve == 50

\* Tokenizer.Count of a text of n tokens
Count(n) == n

\* a tokenizer that returns the content uncut
TruncateNone(content, maxTokens) == content

\* Tokenizer.Truncate: the token count of content cut to at most maxTokens tokens
Truncate(content, maxTokens) == IF content <= maxTokens THEN content ELSE maxTokens

\* Tokenizer.Count(Formatter.FormatChunk(c, path)): header and fence around the content
FormatChunk(content, overhead) == overhead + content

SeqsUpTo(S, n) == UNION {[1..k -> S] : k \in 0..n}

ChunkInputs == [content : ContentTokens, overhead : FormatOverheads]
MemoryInputs == [content : ContentTokens, type : {"note", "convention", "decision"}]

\* decisions is the token count of the block that lists every decision memory of
\* the store (0: the store has none); the retrieved memories come from the same
\* store, so a retrieved decision memory is one of those the block lists
BuildInputs ==
    {b \in [files : SeqsUpTo(ChunkInputs, MaxPinned),
            decisions : {0} \cup ContentTokens,
            memories : SeqsUpTo(MemoryInputs, MaxRetrievedMemories),
            chunks : SeqsUpTo(ChunkInputs, MaxRetrievedChunks)] :
        \A i \in 1..Len(b.memories) :
            b.memories[i].type = "decision" => b.decisions >= b.memories[i].content}

NoBuildInput == [files |-> << >>, decisions |-> 0, memories |-> << >>, chunks |-> << >>]

BuildIdle ==
    /\ bpc = "idle"
    /\ bopts = [MaxTokens |-> 0]
    /\ binput = NoBuildInput
    /\ remaining = 0
    /\ sections = << >>

Section(kind, tokens) == [kind |-> kind, tokens |-> tokens, avail |-> remaining]

\* the block is appended when its measured count fits the remaining budget
Fits(tokens) == tokens <= remaining

\* Step 3: one explicitly requested file
BuildPinnedFile ==
    /\ bpc = "files"
    /\ binput.files # << >>
    /\ LET f == Head(binput.files)
           tokens == Count(FormatChunk(f.content, f.overhead))
       IN /\ IF Fits(tokens)
             THEN /\ sections' = Append(sections, Section("file", tokens))
                  /\ remaining' = remaining - tokens
             ELSE UNCHANGED <<sections, remaining>>
          /\ binput' = [binput EXCEPT !.files = Tail(binput.files)]
    /\ UNCHANGED <<bpc, bopts, ixvars, rvars, svars, mvars, xvars>>

\* Step 5: the decision block, after the loop over the requested files
BuildDecisionBlock ==
    /\ bpc = "files"
    /\ binput.files = << >>
    /\ LET tokens == Count(binput.decisions)
       IN IF binput.decisions > 0 /\ Fits(tokens)
          THEN /\ sections' = Append(sections, Section("decisions", tokens))
               /\ remaining' = remaining - tokens
          ELSE UNCHANGED <<sections, remaining>>
    /\ bpc' = "memories"
    /\ UNCHANGED <<bopts, binput, ixvars, rvars, svars, mvars, xvars>>

\* the label of a retrieved memory's block in sources: "memory (<type>)"
MemoryLabel(type) == IF type = "decision" THEN "memory (decision)" ELSE "memory"

\* Step 6, first loop: one retrieved memory
BuildMemory ==
    /\ bpc = "memories"
    /\ binput.memories # << >>
    /\ LET m == Head(binput.memories)
           tokens == Count(m.content)
       IN /\ IF m.type \notin {"convention", "constraint"} /\ Fits(tokens)
             THEN /\ sections' = Append(sections, Section(MemoryLabel(m.type), tokens))
                  /\ remaining' = remaining - tokens
             ELSE UNCHANGED <<sections, remaining>>
          /\ binput' = [binput EXCEPT !.memories = Tail(binput.memories)]
    /\ UNCHANGED <<bpc, bopts, ixvars, rvars, svars, mvars, xvars>>

\* Step 6, second loop: one retrieved chunk; the first chunk that does not fit ends
\* the loop, truncated into the context when more than TruncateFloor tokens remain
BuildChunk ==
    /\ bpc \in {"memories", "chunks"}
    /\ binput.memories = << >>
    /\ binput.chunks # << >>
    /\ LET c == Head(binput.chunks)
           tokens == Count(FormatChunk(c.content, c.overhead))
           truncated == Truncate(c.content, remaining - TruncateReserve)
       IN IF Fits(tokens)
          THEN /\ sections' = Append(sections, Section("chunk", tokens))
               /\ remaining' = remaining - tokens
               /\ binput' = [binput EXCEPT !.chunks = Tail(binput.chunks)]
               /\ bpc' = "chunks"
          ELSE IF remaining > TruncateFloor
          THEN /\ sections' = Append(sections,
                                     Section("truncated", FormatChunk(truncated, c.overhead)))
               /\ remaining' = 0
               /\ binput' = [binput EXCEPT !.chunks = << >>]
               /\ bpc' = "chunks"
          ELSE /\ binput' = [binput EXCEPT !.chunks = << >>]
               /\ bpc' = "chunks"
               /\ UNCHANGED <<sections, remaining>>
    /\ UNCHANGED <<bopts, ixvars, rvars, svars, mvars, xvars>>

\* the end of Build: tokensUsed = opts.MaxTokens - remaining
BuildFinish ==
    /\ bpc \in {"memories", "chunks"}
    /\ binput.memories = << >>
    /\ binput.chunks = << >>
    /\ bpc' = "done"
    /\ UNCHANGED <<bopts, binput, remaining, sections, ixvars, rvars, svars, mvars, xvars>>

TokensUsed == bopts.MaxTokens - remaining

-----------------------------------------------------------------------------
(* Orchestrator.Retrieve *)

MaxStored == 2
TopK == 2

MemoryRows == [id : 1..MaxStored, kind : MemoryKinds]

RetrieveIdle ==
    /\ rpc = "idle"
    /\ rin = [embedder |-> "ok", vec |-> TRUE]
    /\ rout = [chunks |-> {}, memories |-> {}, err |-> FALSE]

\* VectorStore.SearchMemories and SearchChunks: the query fails when the vector
\* extension is not loaded, and the failure is returned as no match and no error;
\* otherwise the matches are at most topK of the stored vectors
SearchResults(vecs, avail, topK) ==
    IF ~avail THEN {{}}
    ELSE {h \in SUBSET vecs : Cardinality(h) <= topK}

\* o.embedder.Embed(ctx, query): a call through the nil interface panics
EmbedOutcome(embedder) ==
    CASE embedder = "nil" -> "panic"
      [] embedder = "fail" -> "error"
      [] OTHER -> "vector"

\* Retrieve: the matches whose rows exist, or every memory when the query cannot
\* be embedded
Retrieve ==
    /\ rpc = "idle"
    /\ \E hitsC \in SearchResults(vecChunks, rin.vec, TopK),
          hitsM \in SearchResults(vecMemories, rin.vec, TopK) :
          CASE EmbedOutcome(rin.embedder) = "panic" ->
                 /\ rpc' = "panic"
                 /\ rout' = rout
            [] EmbedOutcome(rin.embedder) = "error" ->
                 /\ rpc' = "done"
                 /\ rout' = [chunks |-> {}, memories |-> MemIds(memories), err |-> FALSE]
            [] OTHER ->
                 /\ rpc' = "done"
                 /\ rout' = [chunks |-> hitsC \cap ChunkIds(chunks),
                             memories |-> hitsM \cap MemIds(memories), err |-> FALSE]
    /\ UNCHANGED <<rin, ixvars, bvars, svars, mvars, xvars>>

-----------------------------------------------------------------------------
(* LLMAdapter.Complete: the producer of a completion stream and its consumer *)

\* the capacity of the stream's channel in the model (the adapters make it with 64)
StreamBuffer == 2
\* the text chunks the server sends at most
MaxChunks == 3

Adapters == {"ollama", "gemini", "openai", "claude"}

StreamIdle ==
    /\ spc = "idle"
    /\ scall = [adapter |-> "ollama", stream |-> TRUE]
    /\ ch = << >>
    /\ closes = 0
    /\ sent = << >>
    /\ reading = TRUE

\* the producer as it would be did it go on reading the response after an error chunk
AfterErrorContinue == "loop"

\* ch <- StreamChunk{Error: ...} is followed by return: the goroutine exits
AfterError == "exit"

\* a send blocks while the buffer is full
CanSend == Len(ch) < StreamBuffer

Send(c) ==
    /\ CanSend
    /\ ch' = Append(ch, c)
    /\ sent' = Append(sent, c)

TextsSent == Cardinality({i \in 1..Len(sent) : sent[i] = "text"})

\* Complete is called: the channel is made and the producer goroutine started
StartComplete(a, stream) ==
    /\ spc = "idle"
    /\ closes = 0
    /\ scall' = [adapter |-> a, stream |-> stream]
    /\ spc' = IF a = "openai" /\ stream THEN "loop" ELSE "request"
    /\ UNCHANGED <<ch, closes, sent, reading, ixvars, bvars, rvars, mvars, xvars>>

\* openai, streaming: CreateChatCompletionStream fails, Complete closes the channel
\* itself and returns the error; no goroutine is started
StreamCreateFails ==
    /\ spc = "idle"
    /\ closes = 0
    /\ scall' = [adapter |-> "openai", stream |-> TRUE]
    /\ closes' = closes + 1
    /\ spc' = "closed"
    /\ reading' = FALSE
    /\ UNCHANGED <<ch, sent, ixvars, bvars, rvars, mvars, xvars>>

\* the request fails (transport error, status not 200, API error of a
\* non-streaming call): one error chunk, then return
RequestFails ==
    /\ spc = "request"
    /\ Send("error")
    /\ spc' = AfterError
    /\ UNCHANGED <<scall, closes, reading, ixvars, bvars, rvars, mvars, xvars>>

\* the request succeeds: a non-streaming call sends the whole text (openai and
\* claude nothing when the response has no choice), a streaming one enters its
\* loop; ollama reads the response line by line in both modes
RequestOk(hasText) ==
    /\ spc = "request"
    /\ IF scall.stream \/ scall.adapter = "ollama"
       THEN /\ spc' = "loop"
            /\ UNCHANGED <<ch, sent>>
       ELSE /\ spc' = "exit"
            /\ IF hasText \/ scall.adapter = "gemini"
               THEN Send("text")
               ELSE UNCHANGED <<ch, sent>>
    /\ UNCHANGED <<scall, closes, reading, ixvars, bvars, rvars, mvars, xvars>>

\* the loop reads a line, an event or a delta with text and sends it
SendText ==
    /\ spc = "loop"
    /\ TextsSent < MaxChunks
    /\ Send("text")
    /\ UNCHANGED <<spc, scall, closes, reading, ixvars, bvars, rvars, mvars, xvars>>

\* the loop fails: a line that does not decode, an error object of the server,
\* a Recv error, a scanner error: one error chunk, then return
StreamError ==
    /\ spc = "loop"
    /\ Send("error")
    /\ spc' = AfterError
    /\ UNCHANGED <<scall, closes, reading, ixvars, bvars, rvars, mvars, xvars>>

\* the response ends (done flag, EOF): return
StreamEnd ==
    /\ spc = "loop"
    /\ spc' = "exit"
    /\ UNCHANGED <<scall, ch, closes, sent, reading, ixvars, bvars, rvars, mvars, xvars>>

\* the goroutine exits: the deferred close(ch) runs
CloseStream ==
    /\ spc = "exit"
    /\ closes' = closes + 1
    /\ spc' = "closed"
    /\ UNCHANGED <<scall, ch, sent, reading, ixvars, bvars, rvars, mvars, xvars>>

\* the consumer as it would be did it return after the first chunk of any kind
StopsOnAny(c) == TRUE

\* if chunk.Error != nil { return ... }: the consumer leaves its range loop
StopsOn(c) == c = "error"

\* the consumer's range loop takes a chunk; it returns on an error chunk
ConsumerRecv ==
    /\ reading
    /\ ch # << >>
    /\ ch' = Tail(ch)
    /\ reading' = ~StopsOn(Head(ch))
    /\ UNCHANGED <<spc, scall, closes, sent, ixvars, bvars, rvars, mvars, xvars>>

\* the consumer's range loop ends on the closed, drained channel
ConsumerEnd ==
    /\ reading
    /\ ch = << >>
    /\ closes > 0
    /\ reading' = FALSE
    /\ UNCHANGED <<spc, scall, ch, closes, sent, ixvars, bvars, rvars, mvars, xvars>>

-----------------------------------------------------------------------------
(* db.Open: applyMigrations run by processes that open the same database file *)

\* len(migrations)
NumMigrations == 10

Procs == {"p1", "p2"}

DBIdle ==
    /\ mpc = [p \in Procs |-> [at |-> "closed", i |-> 0]]
    /\ rows = {}
    /\ applied = [i \in 0..(NumMigrations - 1) |-> 0]

\* the position after migration i: the next one, or applyMigrations returns nil
NextMigration(i) ==
    IF i + 1 < NumMigrations THEN [at |-> "check", i |-> i + 1]
    ELSE [at |-> "opened", i |-> 0]

\* Open: the connection is made and schema_migrations created if it is missing
OpenDB(p) ==
    /\ mpc[p].at \in {"closed", "opened", "failed"}
    /\ mpc' = [mpc EXCEPT ![p] = [at |-> "check", i |-> 0]]
    /\ UNCHANGED <<rows, applied, ixvars, bvars, rvars, svars, xvars>>

\* SELECT COUNT(*) FROM schema_migrations WHERE version = i
CheckMigration(p) ==
    /\ mpc[p].at = "check"
    /\ mpc' = [mpc EXCEPT ![p] = IF mpc[p].i \in rows THEN NextMigration(mpc[p].i)
                                  ELSE [at |-> "exec", i |-> mpc[p].i]]
    /\ UNCHANGED <<rows, applied, ixvars, bvars, rvars, svars, xvars>>

\* conn.Exec(stmt)
ExecMigration(p) ==
    /\ mpc[p].at = "exec"
    /\ applied' = [applied EXCEPT ![mpc[p].i] = @ + 1]
    /\ mpc' = [mpc EXCEPT ![p] = [at |-> "record", i |-> mpc[p].i]]
    /\ UNCHANGED <<rows, ixvars, bvars, rvars, svars, xvars>>

\* INSERT INTO schema_migrations (version) VALUES (i): version is the primary
\* key, so the insert of a version already recorded fails and Open returns the error
RecordMigration(p) ==
    /\ mpc[p].at = "record"
    /\ IF mpc[p].i \in rows
       THEN /\ mpc' = [mpc EXCEPT ![p] = [at |-> "failed", i |-> mpc[p].i]]
            /\ rows' = rows
       ELSE /\ rows' = rows \cup {mpc[p].i}
            /\ mpc' = [mpc EXCEPT ![p] = NextMigration(mpc[p].i)]
    /\ UNCHANGED <<applied, ixvars, bvars, rvars, svars, xvars>>

\* DB.Close: the process closes its connection
CloseDB(p) ==
    /\ mpc[p].at = "opened"
    /\ mpc' = [mpc EXCEPT ![p] = [at |-> "closed", i |-> 0]]
    /\ UNCHANGED <<rows, applied, ixvars, bvars, rvars, svars, xvars>>

\* the processes that hold a connection to the database file
HoldingDB == {p \in Procs : mpc[p].at \in {"check", "exec", "record", "opened"}}

-----------------------------------------------------------------------------
(* Store.InsertMemory and Orchestrator.Remember *)

MaxMemories == 3

\* the memory types a caller may pass: MemoryType is a string type
InsertKinds == MemoryKinds \cup {"bogus"}

NoCall == [op |-> "none", kind |-> "", id |-> 0, inserted |-> FALSE, out |-> ""]

MemoryCallIdle == oret = NoCall

\* Store.InsertMemory: the INSERT ... RETURNING id; the row gets a random id, the
\* memory_type column takes any text; id 0 and err when the statement fails
InsertMemory(ms, vs, kind, dbOk) ==
    CHOOSE r \in
        {IF dbOk /\ mid # << >>
         THEN [memories |-> ms \cup {[id |-> mid[1], kind |-> kind]}, id |-> mid[1], err |-> FALSE]
         ELSE [memories |-> ms, id |-> 0, err |-> TRUE] :
            mid \in {FreshIds((1..MaxMemories) \ (MemIds(ms) \cup vs), 1)}} : TRUE

\* the store's InsertMemory called directly
CallInsertMemory(kind, dbOk) ==
    /\ \E r \in {InsertMemory(memories, vecMemories, kind, dbOk)} :
          /\ memories' = r.memories
          /\ oret' = [op |-> "InsertMemory", kind |-> kind, id |-> r.id,
                      inserted |-> ~r.err, out |-> IF r.err THEN "error" ELSE "ok"]
    /\ UNCHANGED <<bvars, rvars, svars, mvars, exceptO, dbInit, files, chunks, vecChunks,
                   vecMemories, project, lastCmd, TreeVars, WatchVars>>

\* Orchestrator.Remember: the type is validated, the row inserted, then the content
\* is embedded through o.embedder and the vector upserted, both best-effort; a nil
\* embedder makes the Embed call panic after the insert
CallRemember(kind, embedder, dbOk, vecOk) ==
    /\ IF ~ValidMemoryType(kind)
       THEN /\ oret' = [op |-> "Remember", kind |-> kind, id |-> 0,
                        inserted |-> FALSE, out |-> "error"]
            /\ UNCHANGED <<memories, vecMemories>>
       ELSE \E r \in {InsertMemory(memories, vecMemories, kind, dbOk)} :
              /\ memories' = r.memories
              /\ vecMemories' = IF ~r.err /\ EmbedOutcome(embedder) = "vector" /\ vecOk
                                THEN vecMemories \cup {r.id} ELSE vecMemories
              /\ oret' = [op |-> "Remember", kind |-> kind, id |-> r.id, inserted |-> ~r.err,
                          out |-> IF r.err THEN "error"
                                  ELSE IF EmbedOutcome(embedder) = "panic" THEN "panic"
                                  ELSE "ok"]
    /\ UNCHANGED <<bvars, rvars, svars, mvars, exceptO, dbInit, files, chunks, vecChunks,
                   project, lastCmd, TreeVars, WatchVars>>

-----------------------------------------------------------------------------
(* autoExport *)

\* export.registry: the formats an Exporter is registered for
Registry == {"claude", "cursor", "markdown", "json"}

\* the names the formats list of the configuration may hold: it is not validated
FormatNames == Registry \cup {"yaml"}

\* formatToFilename
formatToFilename(format) ==
    CASE format = "claude" -> "CLAUDE.md"
      [] format = "cursor" -> ".cursorrules"
      [] format = "markdown" -> "PROJECT_CONTEXT.md"
      [] format = "json" -> "memvra-context.json"
      [] OTHER -> ""

NoExportConfig == [enabled |-> FALSE, formats |-> {}]

ExportIdle == epc = "idle" /\ ecfg = NoExportConfig /\ ewritten = {}

\* the files one run writes: a format is skipped when no exporter is registered
\* for it, when it has no filename, or when rendering or writing its file fails
ExportedFiles(formats, failing) ==
    {formatToFilename(f) : f \in {g \in formats :
        g \in Registry /\ formatToFilename(g) # "" /\ g \notin failing}}

\* autoExport(root, store): returns early when auto-export is disabled or has no
\* format, when GetProject fails (no project row) or when ListMemories fails
autoExport(listOk, failing) ==
    /\ epc = "ready"
    /\ ewritten' = IF \/ ~ecfg.enabled \/ ecfg.formats = {}
                      \/ ~project.exists
                      \/ ~listOk
                   THEN {}
                   ELSE ExportedFiles(ecfg.formats, failing)
    /\ epc' = "done"
    /\ UNCHANGED <<ecfg, basevars, exceptE>>

-----------------------------------------------------------------------------
(* Writing embeddings into the vector tables *)

\* the dimension Open creates vec_chunks and vec_memories with
DefaultEmbeddingDimension == 384

\* the dimensions of the vectors the embedding models return
Dimensions == {384, 768, 1536}

NoWrite == [op |-> "none", dim |-> 0, failed |-> 0, out |-> ""]

VectorIdle == vret = NoWrite

\* VectorStore.UpsertChunkEmbedding / UpsertMemoryEmbedding: an empty embedding
\* is a no-op; the vec0 table refuses a vector of another dimension than its own
UpsertEmbedding(vs, id, dim) ==
    IF dim = 0 THEN [vecs |-> vs, err |-> FALSE]
    ELSE IF dim # DefaultEmbeddingDimension THEN [vecs |-> vs, err |-> TRUE]
    ELSE [vecs |-> vs \cup {id}, err |-> FALSE]

\* the loop over a batch: each vector is upserted, an upsert that fails is skipped
UpsertAll(vs, ids, dim) ==
    [vecs |-> vs \cup {i \in ids : ~UpsertEmbedding(vs, i, dim).err /\ dim # 0},
     failed |-> Cardinality({i \in ids : UpsertEmbedding(vs, i, dim).err})]

\* memvra update: embedFileChunks over the changed files, with an embedder that
\* returns vectors of dimension dim; the command prints the count and returns nil
UpdateEmbeds(fileIds, dim) ==
    /\ fileIds # {}
    /\ \E w \in {UpsertAll(vecChunks, {c.id : c \in {x \in chunks : x.file_id \in fileIds}}, dim)} :
          /\ vecChunks' = w.vecs
          /\ vret' = [op |-> "update", dim |-> dim, failed |-> w.failed, out |-> "ok"]
    /\ UNCHANGED <<bvars, rvars, svars, mvars, exceptV, dbInit, files, chunks, memories,
                   vecMemories, project, lastCmd, TreeVars, WatchVars>>

\* memvra init: embedAllChunks; an upsert that fails is "non-fatal: continue"
InitEmbeds(dim) ==
    /\ \E w \in {UpsertAll(vecChunks, ChunkIds(chunks), dim)} :
          /\ vecChunks' = w.vecs
          /\ vret' = [op |-> "init", dim |-> dim, failed |-> w.failed, out |-> "ok"]
    /\ UNCHANGED <<bvars, rvars, svars, mvars, exceptV, dbInit, files, chunks, memories,
                   vecMemories, project, lastCmd, TreeVars, WatchVars>>

\* Orchestrator.Remember: _ = o.vectors.UpsertMemoryEmbedding(id, vecs[0])
RememberEmbeds(dim) ==
    /\ \E r \in {InsertMemory(memories, vecMemories, "note", TRUE)} :
          /\ ~r.err
          /\ memories' = r.memories
          /\ \E w \in {UpsertAll(vecMemories, {r.id}, dim)} :
                /\ vecMemories' = w.vecs
                /\ vret' = [op |-> "remember", dim |-> dim, failed |-> w.failed, out |-> "ok"]
    /\ UNCHANGED <<bvars, rvars, svars, mvars, exceptV, dbInit, files, chunks, vecChunks,
                   project, lastCmd, TreeVars, WatchVars>>

-----------------------------------------------------------------------------
(* Store.UpsertProject *)

MaxProjectIds == 3
MaxProjectCalls == 4
MaxCount == 2
ProjectNames == {"v1", "v2"}

ProjectIdle == ptable = {} /\ pfirst = 0 /\ pcalls = 0

\* an id taken whatever the table holds
AlwaysFreshId(table, fresh) == {fresh}

\* COALESCE((SELECT id FROM project LIMIT 1), lower(hex(randomblob(16)))): the id of
\* a row of the table when it has one, a random id otherwise
ProjectRowId(table, fresh) ==
    IF table # {} THEN {r.id : r \in table} ELSE {fresh}

\* UpsertProject: INSERT ... ON CONFLICT(id) DO UPDATE: the row with the id is
\* replaced, a row with a new id is added
UpsertProject(table, id, name, fc, cc) ==
    {r \in table : r.id # id}
        \cup {[id |-> id, name |-> name, file_count |-> fc, chunk_count |-> cc]}

\* what a call leaves in the history variables
ProjectCalled(table) ==
    /\ pcalls' = pcalls + 1
    /\ pfirst' = IF pfirst = 0 /\ Cardinality(table) = 1
                 THEN (CHOOSE r \in table : TRUE).id ELSE pfirst

\* memvra init: the project profile is saved under the scanned name and counts
InitUpsertsProject(name, fc, cc) ==
    /\ pcalls < MaxProjectCalls
    /\ \E fresh \in 1..MaxProjectIds : \E id \in ProjectRowId(ptable, fresh) :
          \E t \in {UpsertProject(ptable, id, name, fc, cc)} :
              ptable' = t /\ ProjectCalled(t)
    /\ UNCHANGED <<basevars, exceptP>>

\* refreshProjectCounts: GetProject, then the row is saved with the new counts; a
\* store without a project row is left alone
RefreshUpsertsProject(fc, cc) ==
    /\ pcalls < MaxProjectCalls
    /\ ptable # {}
    /\ \E proj \in ptable, fresh \in 1..MaxProjectIds : \E id \in ProjectRowId(ptable, fresh) :
          \E t \in {UpsertProject(ptable, id, proj.name, fc, cc)} :
              ptable' = t /\ ProjectCalled(t)
    /\ UNCHANGED <<basevars, exceptP>>

-----------------------------------------------------------------------------
(* memvra hook install / uninstall *)

MaxHookLines == 3

hookMarker == "# memvra:managed"
Shebang == "#!/bin/sh"

\* the lines install appends after the marker
BlockBody == <<"# Auto-update Memvra index after each commit.",
               "if command -v memvra >/dev/null 2>&1; then",
               "  memvra update --quiet 2>/dev/null &",
               "fi">>

\* hookScript, split at "\n"
hookScript == <<Shebang, hookMarker>> \o BlockBody \o <<"">>

\* the lines a hook written by the user or another tool is made of
UserLines == {Shebang, "echo hi", "fi", "", "  exit 0"}

\* strings.TrimSpace of one line, its left half and its right half
TrimLineLeft(l) == IF l = "  exit 0" THEN "exit 0" ELSE l
TrimLineRight(l) == l
TrimLine(l) == TrimLineRight(TrimLineLeft(l))

RECURSIVE DropLeadingBlank(_)
DropLeadingBlank(ls) ==
    IF ls = << >> THEN ls
    ELSE IF TrimLine(Head(ls)) = "" THEN DropLeadingBlank(Tail(ls)) ELSE ls

RECURSIVE DropTrailingBlank(_)
DropTrailingBlank(ls) ==
    IF ls = << >> THEN ls
    ELSE IF TrimLine(ls[Len(ls)]) = "" THEN DropTrailingBlank(SubSeq(ls, 1, Len(ls) - 1))
    ELSE ls

\* strings.TrimSpace of a text given as its lines: the white space at both ends
\* goes, blank lines included; the empty text is the single empty line
TrimSpace(ls) ==
    CHOOSE out \in
        {IF b = << >> THEN <<"">>
         ELSE [i \in 1..Len(b) |->
                 IF i = 1 /\ i = Len(b) THEN TrimLine(b[i])
                 ELSE IF i = 1 THEN TrimLineLeft(b[i])
                 ELSE IF i = Len(b) THEN TrimLineRight(b[i])
                 ELSE b[i]] :
            b \in {DropTrailingBlank(DropLeadingBlank(ls))}} : TRUE

\* a content that never shows the marker
NeverHasMarker(content) == FALSE

\* strings.Contains(content, hookMarker)
HasMarker(content) == \E i \in 1..Len(content) : content[i] = hookMarker

\* removeManagedBlock: the lines from the marker line to the next "fi" line are dropped
RECURSIVE removeLoop(_, _, _)
removeLoop(lines, inBlock, result) ==
    IF lines = << >> THEN result
    ELSE IF Head(lines) = hookMarker THEN removeLoop(Tail(lines), TRUE, result)
    ELSE IF inBlock THEN removeLoop(Tail(lines), TrimLine(Head(lines)) # "fi", result)
    ELSE removeLoop(Tail(lines), FALSE, Append(result, Head(lines)))

removeManagedBlock(content) == removeLoop(content, FALSE, << >>)

\* no file, and a file of the given content
NoHook == [exists |-> FALSE, lines |-> << >>]
HookFile(content) == [exists |-> TRUE, lines |-> content]

HookIdle == hfile = NoHook /\ horig = NoHook /\ hlast = "none"

\* hook install: a hook that shows the marker is left alone, another hook gets
\* "\n", the marker and the block appended, a missing hook is written as hookScript
HookInstall ==
    /\ hfile' = IF ~hfile.exists THEN HookFile(hookScript)
                ELSE IF HasMarker(hfile.lines) THEN hfile
                ELSE HookFile(hfile.lines \o <<hookMarker>> \o BlockBody \o <<"">>)
    /\ hlast' = "install"
    /\ UNCHANGED <<horig, basevars, exceptH>>

\* hook uninstall: a missing hook or one without the marker is left alone; the
\* block is removed and the rest trimmed; the file is removed when nothing or
\* only "#!/bin/sh" is left, and rewritten with a final "\n" otherwise
HookUninstall ==
    /\ hfile' = IF ~hfile.exists THEN hfile
                ELSE IF ~HasMarker(hfile.lines) THEN hfile
                ELSE CHOOSE out \in
                       {IF cleaned = <<"">> \/ cleaned = <<Shebang>> THEN NoHook
                        ELSE HookFile(cleaned \o <<"">>) :
                           cleaned \in {TrimSpace(removeManagedBlock(hfile.lines))}} : TRUE
    /\ hlast' = "uninstall"
    /\ UNCHANGED <<horig, basevars, exceptH>>

-----------------------------------------------------------------------------
(* memvra watch: the debounce timer, with time counted in ticks *)

\* the debounce interval, in ticks
Debounce == 2
\* the ticks the model counts a wait up to
MaxWait == 4

\* timer.Stop() after NewTimer: nothing pending, the timer not armed
DebounceIdle ==
    /\ dpend = << >>
    /\ dwait = << >>
    /\ dsince = 0
    /\ dtimer = -1
    /\ dbatch = << >>
    /\ dstopped = FALSE

\* the timer as it would be did Reset leave a timer alone
ResetKept(t) == t

\* timer.Reset(debounce): the timer fires one interval from now, also when it
\* was stopped or had fired (the channel of a reset timer holds no stale value)
ResetTimer(t) == Debounce

\* case event := <-watcher.Events, for an event of a source file that passes
\* the filters: pending[rel] = event.Op, then timer.Reset(debounce)
AcceptEvent(p, op) ==
    /\ ~dstopped
    /\ dpend' = [x \in DOMAIN dpend \cup {p} |-> IF x = p THEN op ELSE dpend[x]]
    /\ dwait' = [x \in DOMAIN dpend \cup {p} |-> IF x \in DOMAIN dpend THEN dwait[x] ELSE 0]
    /\ dsince' = 0
    /\ dtimer' = ResetTimer(dtimer)
    /\ UNCHANGED <<dbatch, dstopped, basevars, oldx, exceptD>>

\* one tick of time passes; the loop takes a ready case before any time passes,
\* so there is no tick while timer.C is ready
Tick ==
    /\ ~dstopped
    /\ dtimer # 0
    /\ dsince < MaxWait
    /\ \A x \in DOMAIN dwait : dwait[x] < MaxWait
    /\ dtimer' = IF dtimer > 0 THEN dtimer - 1 ELSE dtimer
    /\ dwait' = [x \in DOMAIN dwait |-> dwait[x] + 1]
    /\ dsince' = IF DOMAIN dpend = {} THEN 0 ELSE dsince + 1
    /\ UNCHANGED <<dpend, dbatch, dstopped, basevars, oldx, exceptD>>

\* case <-timer.C: continue when nothing is pending, else swap the pending map
\* for a fresh one and run processChanges on the batch
TimerCase ==
    /\ ~dstopped
    /\ dtimer = 0
    /\ dtimer' = -1
    /\ IF DOMAIN dpend = {}
       THEN UNCHANGED <<dpend, dwait, dsince, dbatch>>
       ELSE /\ dbatch' = [x \in DOMAIN dpend |->
                             [op |-> dpend[x], waited |-> dwait[x], quiet |-> dsince]]
            /\ dpend' = << >>
            /\ dwait' = << >>
            /\ dsince' = 0
    /\ UNCHANGED <<dstopped, basevars, oldx, exceptD>>

\* case <-sigCh: the command returns
Signal ==
    /\ ~dstopped
    /\ dstopped' = TRUE
    /\ UNCHANGED <<dpend, dwait, dsince, dtimer, dbatch, basevars, oldx, exceptD>>

-----------------------------------------------------------------------------
(* The operations modelled one at a time *)

-----------------------------------------------------------------------------
(* memvra update and a watcher batch running on the same store *)

CountProcs == {"update", "watch"}

NoCounting == [todo |-> {}, force |-> FALSE, changed |-> FALSE,
               fileCount |-> 0, chunkCount |-> 0]

CountsIdle ==
    /\ cpc = [q \in CountProcs |-> "idle"]
    /\ cloc = [q \in CountProcs |-> NoCounting]

\* the variables a step of either process leaves alone
CountsRest == <<disk, dirs, dbInit, memories, vecMemories, watching, watched, events,
                pending, timer, wpc, batch, tally, lastCmd,
                bvars, rvars, svars, mvars, oldx, exceptC>>

\* update starts its loop over the scanned files and the file rows; the watcher
\* calls processChanges on a batch of paths
BeginIndexing(q, todo, force) ==
    /\ cpc[q] = "idle"
    /\ q = "update" => todo = FilePaths
    /\ q = "watch" => todo # {} /\ ~force
    /\ cpc' = [cpc EXCEPT ![q] = "index"]
    /\ cloc' = [cloc EXCEPT ![q] = [NoCounting EXCEPT !.todo = todo, !.force = force]]
    /\ UNCHANGED <<files, chunks, vecChunks, project, CountsRest>>

\* one iteration: upsertScannedFile for a path that scans, pruneDeletedFile for
\* the row of a path that is gone
IndexPath(q, path) ==
    /\ cpc[q] = "index"
    /\ path \in cloc[q].todo
    /\ LET sf == ScanFile(path)
           row == GetFileByPath(files, path)
       IN IF sf.kind = "file"
          THEN \E r \in {upsertScannedFile(files, chunks, vecChunks, {}, sf,
                                           cloc[q].force)} :
                  /\ r.ok
                  /\ files' = r.files
                  /\ chunks' = r.chunks
                  /\ cloc' = [cloc EXCEPT ![q].todo = @ \ {path},
                                          ![q].changed = @ \/ r.status # "unchanged"]
                  /\ UNCHANGED vecChunks
          ELSE IF row # {}
               THEN \E r \in {pruneDeletedFile(files, chunks, vecChunks,
                                               (CHOOSE f \in row : TRUE).id)} :
                       /\ files' = r.files
                       /\ chunks' = r.chunks
                       /\ vecChunks' = r.vecs
                       /\ cloc' = [cloc EXCEPT ![q].todo = @ \ {path},
                                               ![q].changed = TRUE]
               ELSE /\ cloc' = [cloc EXCEPT ![q].todo = @ \ {path}]
                    /\ UNCHANGED <<files, chunks, vecChunks>>
    /\ UNCHANGED <<cpc, project, CountsRest>>

\* the loop is over: processChanges returns when nothing was added, modified or
\* deleted; otherwise refreshProjectCounts begins with store.CountFiles()
CountFiles(q) ==
    /\ cpc[q] = "index"
    /\ cloc[q].todo = {}
    /\ IF q = "watch" /\ ~cloc[q].changed
       THEN /\ cpc' = [cpc EXCEPT ![q] = "idle"]
            /\ cloc' = [cloc EXCEPT ![q] = NoCounting]
       ELSE /\ cpc' = [cpc EXCEPT ![q] = "countChunks"]
            /\ cloc' = [cloc EXCEPT ![q].fileCount = Cardinality(files)]
    /\ UNCHANGED <<files, chunks, vecChunks, project, CountsRest>>

\* store.CountChunks()
CountChunks(q) ==
    /\ cpc[q] = "countChunks"
    /\ cpc' = [cpc EXCEPT ![q] = "save"]
    /\ cloc' = [cloc EXCEPT ![q].chunkCount = Cardinality(chunks)]
    /\ UNCHANGED <<files, chunks, vecChunks, project, CountsRest>>

\* store.GetProject(), then store.UpsertProject with the two counts read before
SaveCounts(q) ==
    /\ cpc[q] = "save"
    /\ project' = IF project.exists
                  THEN [exists |-> TRUE, file_count |-> cloc[q].fileCount,
                        chunk_count |-> cloc[q].chunkCount]
                  ELSE project
    /\ cpc' = [cpc EXCEPT ![q] = "idle"]
    /\ cloc' = [cloc EXCEPT ![q] = NoCounting]
    /\ UNCHANGED <<files, chunks, vecChunks, CountsRest>>

-----------------------------------------------------------------------------
(* Ranker: similarities and importances in tenths, final scores in hundredths *)

\* the results a call ranks at most
MaxRanked == 3

\* importance of a chunk that is not a test chunk: 1.0
FullWeight == 10
\* importance of a test chunk: 0.3
TestWeight == 3
\* the importance a memory of importance 0 is ranked with: 0.5
DefaultImportance == 5

Similarities == {4, 8}
Importances == {0, 3, 5, 8}

NoRankCall == [kind |-> "none", items |-> << >>]

RankIdle == npc = "idle" /\ nin = NoRankCall /\ nout = << >>

\* the chunks and the memories a call is given, each with the similarity the
\* similarity map holds for its id; the id is the position in the input
RankInputs ==
    UNION {{[kind |-> "chunks",
             items |-> [i \in 1..n |-> [id |-> i, sim |-> f[i][1], importance |-> 0,
                                        type |-> f[i][2]]]] :
                f \in [1..n -> Similarities \X {"code", "test"}]}
           \cup
           {[kind |-> "memories",
             items |-> [i \in 1..n |-> [id |-> i, sim |-> f[i][1], importance |-> f[i][2],
                                        type |-> "note"]]] :
                f \in [1..n -> Similarities \X Importances]} : n \in 0..MaxRanked}

\* RankChunks: FinalScore = sim * importance, importance 0.3 for a test chunk
ChunkScore(c) == c.sim * (IF c.type = "test" THEN TestWeight ELSE FullWeight)

\* the memory score as it would be without the default for importance 0
MemoryScoreRaw(m) == m.sim * m.importance

\* RankMemories: FinalScore = sim * importance, importance 0 replaced by 0.5
MemoryScore(m) ==
    m.sim * (IF m.importance = 0 THEN DefaultImportance ELSE m.importance)

\* sort.Slice with less = FinalScore greater: every order of the elements that
\* is descending in score; the sort is not stable, the order of elements of
\* equal score is not specified
SortSlice(ranked) ==
    {[i \in 1..Len(ranked) |-> ranked[p[i]]] :
        p \in {q \in [1..Len(ranked) -> 1..Len(ranked)] :
                  /\ \A i, j \in 1..Len(ranked) : i # j => q[i] # q[j]
                  /\ \A i, j \in 1..Len(ranked) :
                        i < j => ranked[q[i]].score >= ranked[q[j]].score}}

\* RankChunks or RankMemories: score each element, sort, return
CallRank ==
    /\ npc = "ready"
    /\ \E ranked \in {[i \in 1..Len(nin.items) |->
                         [id |-> nin.items[i].id,
                          score |-> IF nin.kind = "chunks" THEN ChunkScore(nin.items[i])
                                    ELSE MemoryScore(nin.items[i])]]} :
          nout' \in SortSlice(ranked)
    /\ npc' = "done"
    /\ UNCHANGED <<nin, basevars, oldx, exceptN>>

\* the groups of the later sections at rest
LaterIdle == DebounceIdle /\ CountsIdle /\ RankIdle

ExtrasIdle ==
    /\ ChunkIdle /\ MemoryCallIdle /\ ExportIdle /\ VectorIdle /\ ProjectIdle /\ HookIdle
    /\ LaterIdle

-----------------------------------------------------------------------------
(* The specification of the index, the memories and the watcher *)

Init ==
    /\ disk \in [FilePaths -> Contents \cup {0}]
    /\ dirs = {DirD}
    /\ dbInit = FALSE
    /\ files = {}
    /\ chunks = {}
    /\ vecChunks = {}
    /\ memories = {}
    /\ vecMemories = {}
    /\ project = NoProject
    /\ watching = FALSE
    /\ watched = {}
    /\ events = << >>
    /\ pending = EmptyMap
    /\ timer = FALSE
    /\ wpc = "select"
    /\ batch = EmptyMap
    /\ tally = NoTally
    /\ lastCmd = "none"
    /\ BuildIdle /\ RetrieveIdle /\ StreamIdle /\ DBIdle /\ ExtrasIdle

TreeChange ==
    \/ \E p \in FilePaths, c \in Contents : WriteFile(p, c)
    \/ \E p \in FilePaths, op \in {"Remove", "Rename"} : RemoveFile(p, op)
    \/ MoveDirOut
    \/ \E c \in Contents \cup {0} : MoveDirIn(c)

Next ==
    \/ \E emb \in EmbedderStates, note \in {"none"} \cup MemoryKinds : CmdInit(emb, note)
    \/ \E force \in BOOLEAN : CmdUpdate(force)
    \/ \E kind \in MemoryKinds, emb \in EmbedderStates : CmdRemember(kind, emb)
    \/ \E id \in 1..MaxMemId : CmdForgetId(id)
    \/ \E kind \in MemoryKinds : CmdForgetType(kind)
    \/ CmdForgetAll
    \/ \E kind \in MemoryKinds : ForgetByType(kind)
    \/ \E id \in 1..MaxMemId : Forget(id)
    \/ TreeChange

Spec == Init /\ [][Next]_vars

-----------------------------------------------------------------------------
(* The specification of memvra watch on an initialised project *)

\* memvra init has indexed the tree, with or without an embedder, and
\* memvra watch has started: addWatchDirs watches every directory not ignored
InitWatch ==
    /\ disk \in [FilePaths -> Contents \cup {0}]
    /\ dirs = {DirD}
    /\ dbInit = TRUE
    /\ LET st == reindexAll([files |-> {}, chunks |-> {}, ok |-> TRUE], {}, ScanOrder)
       IN /\ files = st.files
          /\ chunks = st.chunks
          /\ vecChunks \in {{}, ChunkIds(st.chunks)}
          /\ project = [exists |-> TRUE, file_count |-> Cardinality(st.files),
                        chunk_count |-> Cardinality(st.chunks)]
    /\ memories = {}
    /\ vecMemories = {}
    /\ watching = TRUE
    /\ watched = {d \in dirs : ~HardIgnore(Base(d)) /\ ~IgnoreMatch(d)}
    /\ events = << >>
    /\ pending = EmptyMap
    /\ timer = FALSE
    /\ wpc = "select"
    /\ batch = EmptyMap
    /\ tally = NoTally
    /\ lastCmd = "exported"
    /\ BuildIdle /\ RetrieveIdle /\ StreamIdle /\ DBIdle /\ ExtrasIdle

NextWatch ==
    \/ TreeChange
    \/ WatchEvent
    \/ TimerFire
    \/ \E p \in FilePaths : ProcessPath(p)
    \/ FinishBatch
    \/ StopWatch

SpecWatch == InitWatch /\ [][NextWatch]_vars

-----------------------------------------------------------------------------
(* The specifications of the context build, of retrieval, of a completion
   stream and of the schema migrations *)

\* no watcher runs and no command has completed
WatcherOff ==
    /\ watching = FALSE
    /\ watched = {}
    /\ events = << >>
    /\ pending = EmptyMap
    /\ timer = FALSE
    /\ wpc = "select"
    /\ batch = EmptyMap
    /\ tally = NoTally
    /\ lastCmd = "none"

\* an empty project directory without a database
IndexIdle ==
    /\ disk = [p \in FilePaths |-> 0]
    /\ dirs = {DirD}
    /\ dbInit = FALSE
    /\ files = {}
    /\ chunks = {}
    /\ vecChunks = {}
    /\ memories = {}
    /\ vecMemories = {}
    /\ project = NoProject
    /\ WatcherOff

\* Build is called: remaining := opts.MaxTokens
InitBuild ==
    /\ bpc = "files"
    /\ bopts \in [MaxTokens : MaxTokensChoices]
    /\ binput \in BuildInputs
    /\ remaining = bopts.MaxTokens
    /\ sections = << >>
    /\ IndexIdle /\ RetrieveIdle /\ StreamIdle /\ DBIdle /\ ExtrasIdle

NextBuild ==
    \/ BuildPinnedFile
    \/ BuildDecisionBlock
    \/ BuildMemory
    \/ BuildChunk
    \/ BuildFinish

SpecBuild == InitBuild /\ [][NextBuild]_vars

\* an indexed project with memories; some chunks and memories have a vector; the
\* orchestrator's embedder is absent, failing or working, the vector extension
\* loaded or not
InitRetrieve ==
    /\ disk \in [FilePaths -> Contents \cup {0}]
    /\ dirs = {DirD}
    /\ dbInit = TRUE
    /\ LET st == reindexAll([files |-> {}, chunks |-> {}, ok |-> TRUE], {}, ScanOrder)
       IN /\ files = st.files
          /\ chunks = st.chunks
          /\ vecChunks \in {{}, ChunkIds(st.chunks)}
          /\ project = [exists |-> TRUE, file_count |-> Cardinality(st.files),
                        chunk_count |-> Cardinality(st.chunks)]
    /\ memories \in {ms \in SUBSET MemoryRows :
                        \A m, n \in ms : m.id = n.id => m = n}
    /\ vecMemories \in SUBSET MemIds(memories)
    /\ WatcherOff
    /\ rpc = "idle"
    /\ rin \in [embedder : EmbedderStates, vec : BOOLEAN]
    /\ rout = [chunks |-> {}, memories |-> {}, err |-> FALSE]
    /\ BuildIdle /\ StreamIdle /\ DBIdle /\ ExtrasIdle

NextRetrieve == Retrieve

SpecRetrieve == InitRetrieve /\ [][NextRetrieve]_vars

InitStream == IndexIdle /\ BuildIdle /\ RetrieveIdle /\ StreamIdle /\ DBIdle /\ ExtrasIdle

NextStream ==
    \/ \E a \in Adapters, stream \in BOOLEAN : StartComplete(a, stream)
    \/ StreamCreateFails
    \/ RequestFails
    \/ \E hasText \in BOOLEAN : RequestOk(hasText)
    \/ SendText
    \/ StreamError
    \/ StreamEnd
    \/ CloseStream
    \/ ConsumerRecv
    \/ ConsumerEnd

SpecStream == InitStream /\ [][NextStream]_vars

\* the producer goroutine and the consumer are scheduled whenever they can take
\* a step, and a read of the response returns: a chunk, its end or an error
\* (a cancelled request fails its read)
SpecStreamFair ==
    /\ InitStream /\ [][NextStream]_vars
    /\ WF_vars(RequestFails \/ \E hasText \in BOOLEAN : RequestOk(hasText))
    /\ WF_vars(SendText \/ StreamError \/ StreamEnd)
    /\ WF_vars(CloseStream)
    /\ WF_vars(ConsumerRecv)
    /\ WF_vars(ConsumerEnd)

InitDB == IndexIdle /\ BuildIdle /\ RetrieveIdle /\ StreamIdle /\ DBIdle /\ ExtrasIdle

NextDB ==
    \/ \E p \in Procs : OpenDB(p)
    \/ \E p \in Procs : CheckMigration(p)
    \/ \E p \in Procs : ExecMigration(p)
    \/ \E p \in Procs : RecordMigration(p)
    \/ \E p \in Procs : CloseDB(p)

SpecDB == InitDB /\ [][NextDB]_vars

\* ChunkFile is called once with some content, chunk type and max-lines value
InitChunk ==
    /\ kpc = "ready"
    /\ kin \in ChunkCalls
    /\ kout = << >>
    /\ MemoryCallIdle /\ ExportIdle /\ VectorIdle /\ ProjectIdle /\ HookIdle
    /\ IndexIdle /\ BuildIdle /\ RetrieveIdle /\ StreamIdle /\ DBIdle
    /\ LaterIdle

NextChunk == CallChunkFile

SpecChunk == InitChunk /\ [][NextChunk]_vars

\* an opened store without memories; InsertMemory and Remember are called on it
InitMemory ==
    /\ disk = [p \in FilePaths |-> 0]
    /\ dirs = {DirD}
    /\ dbInit = TRUE
    /\ files = {} /\ chunks = {} /\ vecChunks = {}
    /\ memories = {} /\ vecMemories = {}
    /\ project = NoProject
    /\ WatcherOff
    /\ BuildIdle /\ RetrieveIdle /\ StreamIdle /\ DBIdle /\ ExtrasIdle

NextMemory ==
    \/ \E kind \in InsertKinds, dbOk \in BOOLEAN : CallInsertMemory(kind, dbOk)
    \/ \E kind \in InsertKinds, embedder \in EmbedderStates, dbOk, vecOk \in BOOLEAN :
          CallRemember(kind, embedder, dbOk, vecOk)

SpecMemory == InitMemory /\ [][NextMemory]_vars

\* autoExport runs once, on a store with or without a project row, under some
\* auto_export configuration
InitExport ==
    /\ epc = "ready"
    /\ ecfg \in [enabled : BOOLEAN, formats : SUBSET FormatNames]
    /\ ewritten = {}
    /\ disk = [p \in FilePaths |-> 0]
    /\ dirs = {DirD}
    /\ dbInit = TRUE
    /\ files = {} /\ chunks = {} /\ vecChunks = {}
    /\ memories = {} /\ vecMemories = {}
    /\ project \in {NoProject, [NoProject EXCEPT !.exists = TRUE]}
    /\ WatcherOff
    /\ BuildIdle /\ RetrieveIdle /\ StreamIdle /\ DBIdle
    /\ ChunkIdle /\ MemoryCallIdle /\ VectorIdle /\ ProjectIdle /\ HookIdle
    /\ LaterIdle

NextExport ==
    \E listOk \in BOOLEAN, failing \in SUBSET ecfg.formats : autoExport(listOk, failing)

SpecExport == InitExport /\ [][NextExport]_vars

\* an indexed project without vectors; the commands that embed run with an
\* embedding model of some dimension
InitVector ==
    /\ disk \in [FilePaths -> Contents]
    /\ dirs = {DirD}
    /\ dbInit = TRUE
    /\ LET st == reindexAll([files |-> {}, chunks |-> {}, ok |-> TRUE], {}, ScanOrder)
       IN /\ files = st.files
          /\ chunks = st.chunks
          /\ project = [exists |-> TRUE, file_count |-> Cardinality(st.files),
                        chunk_count |-> Cardinality(st.chunks)]
    /\ vecChunks = {}
    /\ memories = {} /\ vecMemories = {}
    /\ WatcherOff
    /\ BuildIdle /\ RetrieveIdle /\ StreamIdle /\ DBIdle
    /\ ChunkIdle /\ MemoryCallIdle /\ ExportIdle /\ VectorIdle /\ ProjectIdle /\ HookIdle
    /\ LaterIdle

NextVector ==
    \/ \E fileIds \in SUBSET FileIds(files), dim \in Dimensions : UpdateEmbeds(fileIds, dim)
    \/ \E dim \in Dimensions : InitEmbeds(dim)
    \/ \E dim \in Dimensions : RememberEmbeds(dim)

SpecVector == InitVector /\ [][NextVector]_vars

\* an opened database whose project table is empty
InitProject ==
    /\ ProjectIdle
    /\ IndexIdle /\ BuildIdle /\ RetrieveIdle /\ StreamIdle /\ DBIdle
    /\ ChunkIdle /\ MemoryCallIdle /\ ExportIdle /\ VectorIdle /\ HookIdle
    /\ LaterIdle

NextProject ==
    \/ \E name \in ProjectNames, fc, cc \in 0..MaxCount : InitUpsertsProject(name, fc, cc)
    \/ \E fc, cc \in 0..MaxCount : RefreshUpsertsProject(fc, cc)

SpecProject == InitProject /\ [][NextProject]_vars

\* the repository has no post-commit hook, or one of another origin
InitHook ==
    /\ hfile \in {NoHook} \cup {HookFile(c) : c \in UNION {[1..n -> UserLines] : n \in 1..MaxHookLines}}
    /\ horig = hfile
    /\ hlast = "none"
    /\ IndexIdle /\ BuildIdle /\ RetrieveIdle /\ StreamIdle /\ DBIdle
    /\ ChunkIdle /\ MemoryCallIdle /\ ExportIdle /\ VectorIdle /\ ProjectIdle
    /\ LaterIdle

NextHook == HookInstall \/ HookUninstall

SpecHook == InitHook /\ [][NextHook]_vars

\* memvra watch has entered its loop
InitDebounce ==
    /\ DebounceIdle
    /\ IndexIdle /\ BuildIdle /\ RetrieveIdle /\ StreamIdle /\ DBIdle
    /\ ChunkIdle /\ MemoryCallIdle /\ ExportIdle /\ VectorIdle /\ ProjectIdle /\ HookIdle
    /\ CountsIdle /\ RankIdle

NextDebounce ==
    \/ \E p \in FilePaths, op \in FsOps : AcceptEvent(p, op)
    \/ Tick
    \/ TimerCase
    \/ Signal

SpecDebounce == InitDebounce /\ [][NextDebounce]_vars

\* memvra init has indexed the tree; no embedder is configured
InitCounts ==
    /\ disk \in [FilePaths -> Contents \cup {0}]
    /\ dirs = {DirD}
    /\ dbInit = TRUE
    /\ LET st == reindexAll([files |-> {}, chunks |-> {}, ok |-> TRUE], {}, ScanOrder)
       IN /\ files = st.files
          /\ chunks = st.chunks
          /\ project = [exists |-> TRUE, file_count |-> Cardinality(st.files),
                        chunk_count |-> Cardinality(st.chunks)]
    /\ vecChunks = {}
    /\ memories = {} /\ vecMemories = {}
    /\ WatcherOff
    /\ CountsIdle /\ DebounceIdle /\ RankIdle
    /\ BuildIdle /\ RetrieveIdle /\ StreamIdle /\ DBIdle
    /\ ChunkIdle /\ MemoryCallIdle /\ ExportIdle /\ VectorIdle /\ ProjectIdle /\ HookIdle

\* the tree changes while neither process is running
NextCounts ==
    \/ (\A q \in CountProcs : cpc[q] = "idle") /\ TreeChange
    \/ \E q \in CountProcs, todo \in SUBSET FilePaths, force \in BOOLEAN :
          BeginIndexing(q, todo, force)
    \/ \E q \in CountProcs, path \in FilePaths : IndexPath(q, path)
    \/ \E q \in CountProcs : CountFiles(q)
    \/ \E q \in CountProcs : CountChunks(q)
    \/ \E q \in CountProcs : SaveCounts(q)

SpecCounts == InitCounts /\ [][NextCounts]_vars

\* a call of the ranker
InitRank ==
    /\ npc = "ready"
    /\ nin \in RankInputs
    /\ nout = << >>
    /\ DebounceIdle /\ CountsIdle
    /\ IndexIdle /\ BuildIdle /\ RetrieveIdle /\ StreamIdle /\ DBIdle
    /\ ChunkIdle /\ MemoryCallIdle /\ ExportIdle /\ VectorIdle /\ ProjectIdle /\ HookIdle

NextRank == CallRank

SpecRank == InitRank /\ [][NextRank]_vars

\* memvra update on a project that memvra init indexed without storing any
\* embedding, while the files of the tree are edited
NextReembed ==
    \/ TreeChange
    \/ \E force \in BOOLEAN : CmdUpdate(force)

SpecReembed == InitVector /\ [][NextReembed]_vars

-----------------------------------------------------------------------------
(* Properties of the index, the memories and the watcher *)

\* C1: every id in vec_chunks is the id of an existing chunk and every id in
\* vec_memories is the id of an existing memory, after any sequence of init,
\* update, remember and forget by id, by type or of everything.
C1_VectorsReferToRows ==
    /\ vecChunks \subseteq ChunkIds(chunks)
    /\ vecMemories \subseteq MemIds(memories)

\* the watcher has received every event and processed every batch
WatcherIdle ==
    /\ watching
    /\ wpc = "select"
    /\ events = << >>
    /\ DOMAIN pending = {}

\* C2: once the watcher is idle after processing all the events of a sequence of
\* file-system changes, the file rows and the chunks are those a full rescan of
\* the tree would leave.
C2_IdleWatcherMatchesRescan == WatcherIdle => StoreMatchesDisk

\* C3: in a watcher batch, every path that is gone from disk and has a file row is
\* pruned whatever the last op recorded for it, and every path that is on disk is
\* scanned and upserted.
C3_BatchPrunesOrUpserts ==
    [][\A p \in FilePaths :
          (wpc = "processing" /\ p \in DOMAIN batch /\ p \notin DOMAIN batch')
          => IF disk[p] = 0
             THEN GetFileByPath(files, p) # {} => GetFileByPath(files', p) = {}
             ELSE \E f \in GetFileByPath(files', p) : f.hash = disk[p]]_vars

\* C5: every command or batch that completes has run the auto-export.
C5_CompletedCommandExports == lastCmd # "skipped"

\* C8: the watcher never processes two batches at once: while a batch is in
\* flight it gains no path and no op of it changes, and an event the loop accepts
\* goes into the pending map, never into the batch.
C8_NoConcurrentBatch ==
    [][/\ wpc = "processing" =>
            \A p \in DOMAIN batch' : p \in DOMAIN batch /\ batch'[p] = batch[p]
       /\ (watching' /\ Len(events') < Len(events)) =>
            /\ batch' = batch
            /\ (~shouldIgnoreEvent(Head(events).path)
                /\ LanguageForFile(Head(events).path) # "")
               => /\ Head(events).path \in DOMAIN pending'
                  /\ pending'[Head(events).path] = Head(events).op]_vars

\* an event arrived while a batch is in flight
C8_EventDuringBatch == wpc = "processing" /\ DOMAIN batch # {} /\ events # << >>

-----------------------------------------------------------------------------
(* Properties of the context build, of retrieval, of a completion stream and
   of the schema migrations *)

\* C4: a context build includes no block whose token count exceeds the budget
\* that remained when the block was evaluated, and tokensUsed, which is
\* MaxTokens - remaining, never exceeds MaxTokens.
C4_BlocksFitBudget ==
    /\ \A i \in 1..Len(sections) : sections[i].tokens <= sections[i].avail
    /\ TokensUsed <= bopts.MaxTokens

\* C11: in the retrieved-chunks stage the chunks are taken in ranked order and
\* the first chunk whose block does not fit ends the stage: with more than 100
\* tokens remaining it is appended with its content cut to remaining - 50
\* tokens and remaining becomes 0, otherwise nothing is appended; no chunk is
\* evaluated after it, so at most one truncated chunk appears and it is the
\* last block.
C11_FirstMisfitEndsChunks ==
    [][/\ (bpc \in {"memories", "chunks"} /\ binput.memories = << >> /\ binput.chunks # << >>) =>
            LET c == Head(binput.chunks)
                block == c.overhead + c.content
                cut == IF c.content <= remaining - 50 THEN c.content ELSE remaining - 50
            IN IF block <= remaining
               THEN /\ Len(sections') = Len(sections) + 1
                    /\ sections'[Len(sections')].kind = "chunk"
                    /\ sections'[Len(sections')].tokens = block
                    /\ remaining' = remaining - block
                    /\ binput'.chunks = Tail(binput.chunks)
               ELSE /\ binput'.chunks = << >>
                    /\ IF remaining > 100
                       THEN /\ Len(sections') = Len(sections) + 1
                            /\ SubSeq(sections', 1, Len(sections)) = sections
                            /\ sections'[Len(sections')].kind = "truncated"
                            /\ sections'[Len(sections')].tokens = c.overhead + cut
                            /\ remaining' = 0
                       ELSE sections' = sections /\ remaining' = remaining
       /\ \A i \in 1..Len(sections') :
            sections'[i].kind = "truncated" => i = Len(sections')
      ]_vars

\* a build that appended one whole chunk and then a truncated one, with the
\* budget used up
C11_TruncatedAfterChunk ==
    /\ bpc = "done"
    /\ Len(sections) >= 2
    /\ sections[Len(sections)].kind = "truncated"
    /\ sections[Len(sections) - 1].kind = "chunk"
    /\ remaining = 0

\* C6: with no embedder, Retrieve returns every memory of the store, without an
\* error and without a crash.
C6_NoEmbedderReturnsAll ==
    (rin.embedder = "nil" /\ rpc # "idle")
    => /\ rpc = "done"
       /\ ~rout.err
       /\ rout.memories = MemIds(memories)

\* C7: the producer of a completion stream closes the channel exactly once, on
\* every path, and an error chunk is the last chunk it sends.
C7_ClosedOnceErrorLast ==
    /\ closes <= 1
    /\ spc = "closed" <=> closes = 1
    /\ \A i \in 1..Len(sent) : sent[i] = "error" => i = Len(sent)

\* a stream whose producer sent text, then an error chunk, and closed
C7_ClosedAfterError ==
    /\ spc = "closed"
    /\ Len(sent) > 1
    /\ sent[Len(sent)] = "error"

\* no Open is running and one has returned
OpensReturned ==
    /\ \A p \in Procs : mpc[p].at \in {"closed", "opened", "failed"}
    /\ \E p \in Procs : mpc[p].at # "closed"

\* C9: after any number of Open calls, one after another or at the same time,
\* every migration statement has been executed exactly once and
\* schema_migrations holds one row per migration index.
C9_MigrationsAppliedOnce ==
    OpensReturned =>
        \A i \in 0..(NumMigrations - 1) : applied[i] = 1 /\ i \in rows

\* C10: when the vector extension is not loaded the searches return no match
\* and no error, and Retrieve returns every memory of the store.
C10_NoVectorsReturnsAll ==
    (~rin.vec /\ rpc = "done")
    => /\ ~rout.err
       /\ rout.chunks = {}
       /\ rout.memories = MemIds(memories)

-----------------------------------------------------------------------------
(* Properties of the chunker *)

\* C12: for every content of n lines, every chunk type and every max-lines
\* value M >= 1, each chunk ChunkFile returns has 1 <= start <= end <= n, and
\* the line ranges of the chunks together are exactly 1..n.
C12_ChunksCoverFile ==
    (kpc = "done" /\ kin.maxLines >= 1) =>
        /\ \A i \in 1..Len(kout) :
              1 <= kout[i][1] /\ kout[i][1] <= kout[i][2] /\ kout[i][2] <= Len(kin.lines)
        /\ UNION {kout[i][1]..kout[i][2] : i \in 1..Len(kout)} = 1..Len(kin.lines)

\* a markdown file split at a heading and by the max-lines value into three
\* chunks or more
C12_MarkdownSplit ==
    /\ kpc = "done"
    /\ kin.chunkType = "docs"
    /\ kin.maxLines >= 2
    /\ \E i \in 2..Len(kin.lines) : kin.lines[i]
    /\ Len(kout) >= 3

\* C13: the line chunker emits no tiny trailing chunk: when the lines left
\* after the last full window are fewer than the overlap, the previous window
\* is extended to the end of the file; a file of 155 lines with M = 150 and
\* O = 10 gives the single chunk [1..155].
C13_NoTinyTrailingChunk ==
    (/\ kpc = "done"
     /\ kin.chunkType # "docs"
     /\ kin.maxLines > DefaultOverlap
     /\ Len(kin.lines) > kin.maxLines) =>
        /\ Len(kout) >= 2 =>
              kout[Len(kout)][2] - kout[Len(kout) - 1][2] >= DefaultOverlap
        /\ (Len(kin.lines) = 155 /\ kin.maxLines = 150) => kout = << <<1, 155>> >>

-----------------------------------------------------------------------------
(* Properties of InsertMemory and Remember *)

\* C14: InsertMemory rejects a memory whose kind is not one of decision,
\* convention, constraint, note, todo and inserts no row for it, so every
\* stored memory has an enumerated kind.
C14_InsertRejectsInvalidKind ==
    /\ (oret.op = "InsertMemory" /\ ~ValidMemoryType(oret.kind)) =>
          (oret.out = "error" /\ ~oret.inserted)
    /\ \A m \in memories : ValidMemoryType(m.kind)

\* C15: Remember with a valid kind returns the inserted memory without error
\* whenever the insert succeeds, whether or not the embedding or the vector
\* upsert succeeds.
C15_RememberReturnsInserted ==
    (oret.op = "Remember" /\ ValidMemoryType(oret.kind) /\ oret.inserted) =>
        (oret.out = "ok" /\ oret.id \in MemIds(memories))

-----------------------------------------------------------------------------
(* Properties of autoExport *)

\* C16: an auto-export run writes at least one export file if and only if
\* auto-export is enabled, a project row exists and at least one format is
\* configured.
C16_ExportsIffConfigured ==
    epc = "done" =>
        (ewritten # {} <=> (ecfg.enabled /\ project.exists /\ ecfg.formats # {}))

-----------------------------------------------------------------------------
(* Properties of the embedding writes *)

\* C17: writing an embedding whose dimension differs from the dimension the
\* vector index was created with is reported as an error to the command that
\* attempted the write; it is never silently dropped.
C17_DimensionMismatchReported ==
    (vret.op # "none" /\ vret.dim # DefaultEmbeddingDimension /\ vret.failed > 0) =>
        vret.out = "error"

-----------------------------------------------------------------------------
(* Properties of the database file *)

\* C18: at any time at most one process has the knowledge store open; a second
\* process cannot open it until the first has closed it.
C18_OneProcessHoldsDB == Cardinality(HoldingDB) <= 1

-----------------------------------------------------------------------------
(* Properties of the project table *)

\* C19: after any sequence of UpsertProject calls the project table holds
\* exactly one row, with the id it had after the first call; no operation
\* deletes the row.
C19_OneProjectRow ==
    /\ pcalls = 0 => ptable = {}
    /\ pcalls > 0 =>
          /\ Cardinality(ptable) = 1
          /\ pfirst # 0
          /\ \A r \in ptable : r.id = pfirst

\* the project saved by init under one name, saved again under another name,
\* then its counts refreshed
C19_RenamedAndRefreshed ==
    /\ pcalls >= 3
    /\ \E r \in ptable : r.name = "v2" /\ r.file_count = MaxCount /\ r.id = pfirst

-----------------------------------------------------------------------------
(* Properties of the post-commit hook *)

\* the marker followed by the lines of the block
BlockLines == <<hookMarker>> \o BlockBody

\* the line numbers at which a whole managed block starts, and those of the marker
Blocks(f) == {m \in 1..Len(f) : m + 4 <= Len(f) /\ SubSeq(f, m, m + 4) = BlockLines}
Markers(f) == {i \in 1..Len(f) : f[i] = hookMarker}

\* the lines of a text: the piece after a final "\n" is not a line
FileLines(f) == IF f # << >> /\ f[Len(f)] = "" THEN SubSeq(f, 1, Len(f) - 1) ELSE f

\* the lines that lie outside every managed block, in order
RECURSIVE OutsideFrom(_, _)
OutsideFrom(f, i) ==
    IF i > Len(FileLines(f)) THEN << >>
    ELSE IF \E m \in Blocks(f) : m <= i /\ i <= m + 4 THEN OutsideFrom(f, i + 1)
    ELSE <<f[i]>> \o OutsideFrom(f, i + 1)

Outside(f) == OutsideFrom(f, 1)

\* the lines that are not blank, without the white space around them
RECURSIVE NonBlank(_)
NonBlank(ls) ==
    IF ls = << >> THEN << >>
    ELSE IF TrimLine(Head(ls)) = "" THEN NonBlank(Tail(ls))
    ELSE <<TrimLine(Head(ls))>> \o NonBlank(Tail(ls))

\* a is b with some elements left out
RECURSIVE IsSubseq(_, _)
IsSubseq(a, b) ==
    IF a = << >> THEN TRUE
    ELSE IF b = << >> THEN FALSE
    ELSE IF Head(a) = Head(b) THEN IsSubseq(Tail(a), Tail(b))
    ELSE IsSubseq(a, Tail(b))

\* C20: after any sequence of hook install and uninstall commands the hook
\* holds the managed block exactly once if the last command was install and
\* not at all if it was uninstall, and every line outside the managed block is
\* preserved in its original order; the file is removed when only the shebang
\* is left.
C20_HookLinesPreserved ==
    hlast # "none" =>
        /\ hlast = "install" =>
              /\ hfile.exists
              /\ Cardinality(Blocks(hfile.lines)) = 1
              /\ Markers(hfile.lines) = Blocks(hfile.lines)
        /\ hlast = "uninstall" => Markers(hfile.lines) = {}
        /\ hfile.exists => IsSubseq(FileLines(horig.lines), Outside(hfile.lines))
        /\ ~hfile.exists => NonBlank(horig.lines) \in {<< >>, <<Shebang>>}

\* C20, as the code has it: the block is there exactly once after install and
\* not at all after uninstall; the lines outside the block that are not blank
\* are preserved in their order, up to the white space uninstall trims at both
\* ends of the text; the file is removed when nothing but "#!/bin/sh" and blank
\* lines is left.
C20_HookContentPreserved ==
    hlast # "none" =>
        /\ hlast = "install" =>
              /\ hfile.exists
              /\ Cardinality(Blocks(hfile.lines)) = 1
              /\ Markers(hfile.lines) = Blocks(hfile.lines)
        /\ hlast = "uninstall" => Markers(hfile.lines) = {}
        /\ hfile.exists => IsSubseq(NonBlank(horig.lines), NonBlank(Outside(hfile.lines)))
        /\ ~hfile.exists => NonBlank(horig.lines) \in {<< >>, <<Shebang>>}

\* a hook of another origin after install and uninstall: rewritten without the
\* block, its command kept, its blank lines at the ends gone
C20_UninstalledAndRewritten ==
    /\ hlast = "uninstall"
    /\ hfile.exists /\ horig.exists
    /\ hfile # horig
    /\ \E i \in 1..Len(hfile.lines) : hfile.lines[i] = "echo hi"

-----------------------------------------------------------------------------
(* Re-indexing replaces a file's chunks *)

\* the <<start, end>> ranges the chunker gives a code file of n lines
ChunkerRanges(n) ==
    {ChunkFile(CodeLines(n), "code", ChunkMaxLines)[i] :
        i \in 1..Len(ChunkFile(CodeLines(n), "code", ChunkMaxLines))}

-----------------------------------------------------------------------------
(* Streams end *)

\* C22: every stream is eventually closed, whatever the request and the response
\* do (a cancellation, a server or a transport error included), and the producer
\* has no send left to make once the consumer has stopped reading
C22_StreamEventuallyClosed ==
    /\ (spc # "idle") ~> (closes = 1)
    /\ [](~reading => spc \in {"exit", "closed"})

\* the whole response was sent, then an error chunk; the consumer stopped at the
\* error chunk and the channel is closed
C22_ClosedAfterFullResponse ==
    /\ closes = 1
    /\ ~reading
    /\ ch = << >>
    /\ Len(sent) = MaxChunks + 1
    /\ sent[Len(sent)] = "error"

-----------------------------------------------------------------------------
(* The watcher's latency *)

\* the waits of the pending events and of the events of the last batch
C23_Waits ==
    {dwait[x] : x \in DOMAIN dwait} \cup {dbatch[x].waited : x \in DOMAIN dbatch}

\* C23 as stated: while no shutdown signal has arrived, no event put in the
\* pending map waits for its batch longer than the debounce interval, whatever
\* events follow it
C23_WaitCappedByDebounce ==
    ~dstopped => \A w \in C23_Waits : w <= Debounce

\* C23: while no shutdown signal has arrived, the pending events are handed to a
\* batch at most one debounce interval after the last event put in the pending
\* map; each such event restarts the interval
C23_WaitCappedAfterLastEvent ==
    ~dstopped =>
        /\ DOMAIN dpend # {} => dsince <= Debounce /\ dtimer = Debounce - dsince
        /\ \A x \in DOMAIN dbatch : dbatch[x].quiet = Debounce

\* a batch took an event that had waited longer than the debounce interval,
\* because a later event restarted the timer
C23_BatchAfterLaterEvent ==
    \E x, y \in DOMAIN dbatch :
        /\ dbatch[x].waited > Debounce
        /\ dbatch[y].waited = Debounce

-----------------------------------------------------------------------------
(* Overlap of consecutive chunks *)

\* the number of lines chunk i of the result shares with chunk i + 1
C24_Shared(i) ==
    Cardinality((kout[i][1]..kout[i][2]) \cap (kout[i + 1][1]..kout[i + 1][2]))

\* the window ChunkFile works with: the default when maxLines is not positive
C24_Window == IF kin.maxLines <= 0 THEN DefaultMaxLines ELSE kin.maxLines

\* C24 as stated: every two consecutive chunks of a file share as many lines
\* as the configured overlap, 10
C24_OverlapIsConfigured ==
    kpc = "done" => \A i \in 1..(Len(kout) - 1) : C24_Shared(i) = DefaultOverlap

\* C24: two consecutive chunks of a file that is not of type docs, cut with a
\* window larger than the overlap, share as many lines as the configured
\* overlap, 10; consecutive chunks of a docs file, and those cut with a window
\* of at most 10 lines, share none
C24_OverlapOfLineWindows ==
    kpc = "done" =>
        \A i \in 1..(Len(kout) - 1) :
            C24_Shared(i) = IF kin.chunkType # "docs" /\ C24_Window > DefaultOverlap
                            THEN DefaultOverlap ELSE 0

\* a code file cut into three chunks or more by a window larger than the overlap
C24_ThreeWindows ==
    /\ kpc = "done"
    /\ kin.chunkType # "docs"
    /\ C24_Window > DefaultOverlap + 2
    /\ Len(kout) >= 3

\* C28: no chunk of the line chunker lies within the line range of the chunk
\* before it: every chunk after the first has a line its predecessor lacks
C28_NoChunkInsidePrevious ==
    (kpc = "done" /\ kin.chunkType # "docs") =>
        \A i \in 2..Len(kout) :
            ~(kout[i - 1][1] <= kout[i][1] /\ kout[i][2] <= kout[i - 1][2])

-----------------------------------------------------------------------------
(* The counts of the project row *)

\* C25: whenever neither update nor a watcher batch is running, the project
\* row's file_count and chunk_count are the numbers of file rows and of chunk
\* rows, also after the two have run on the store at overlapping times
C25_CountsMatchRows ==
    (project.exists /\ \A q \in CountProcs : cpc[q] = "idle") =>
        /\ project.file_count = Cardinality(files)
        /\ project.chunk_count = Cardinality(chunks)

-----------------------------------------------------------------------------
(* Embedding after update *)

\* a run of memvra update whose embedder answers every call
C26_UpdateEmbedding == \E force \in BOOLEAN : UpdateEmbedding(force)

-----------------------------------------------------------------------------
(* Memories in the context text *)

\* C27: a build appends no memory twice: when the decision block is in the
\* context, no decision memory, which that block lists, is appended again as a
\* retrieved memory
C27_NoMemoryTwice ==
    ~\E i, j \in 1..Len(sections) :
        /\ sections[i].kind = "decisions"
        /\ sections[j].kind = "memory (decision)"

-----------------------------------------------------------------------------
(* Properties of the ranker *)

\* C29: the ranker returns its results in descending order of final score, and
\* two results of equal final score keep the order in which they were given
C29_SortedAndStable ==
    npc = "done" =>
        \A i, j \in 1..Len(nout) :
            i < j => /\ nout[i].score >= nout[j].score
                     /\ nout[i].score = nout[j].score => nout[i].id < nout[j].id

\* the input element a result was computed from
C30_Given(r) == nin.items[r.id]

\* C30 as stated: the final score of a memory is its similarity multiplied by
\* the larger of its importance and 0.5
C30_ScoreUsesMax ==
    (npc = "done" /\ nin.kind = "memories") =>
        \A i \in 1..Len(nout) :
            nout[i].score = C30_Given(nout[i]).sim
                              * (IF C30_Given(nout[i]).importance >= 5
                                 THEN C30_Given(nout[i]).importance ELSE 5)

\* C30: the final score of a memory is its similarity multiplied by its
\* importance, an importance of 0 counting as 0.5
C30_ScoreDefaultsZero ==
    (npc = "done" /\ nin.kind = "memories") =>
        \A i \in 1..Len(nout) :
            nout[i].score = C30_Given(nout[i]).sim
                              * (IF C30_Given(nout[i]).importance = 0
                                 THEN 5 ELSE C30_Given(nout[i]).importance)

\* ranked memories, one of importance 0 and one of importance 0.3
C30_ZeroAndLowImportance ==
    /\ npc = "done"
    /\ nin.kind = "memories"
    /\ \E i, j \in 1..Len(nout) :
          /\ C30_Given(nout[i]).importance = 0
          /\ C30_Given(nout[j]).importance = 3

====
